---------------------------- MODULE Spec2Model ----------------------------
(***************************************************************************)
(* A model of core-net, a software KVM: the wire codec                     *)
(* (src/protocol/codec.rs), the connection handshake                       *)
(* (src/network/connection.rs, server.rs, client.rs) and the control       *)
(* transfer between the primary's controller and a follower               *)
(* (src/main.rs, src/screen).                                              *)
(*                                                                         *)
(* The module holds several specifications over one set of variables; a   *)
(* specification leaves the variables of the other parts at their initial *)
(* values:                                                                 *)
(*   EncoderSpec    Encoder objects and their sequence counters            *)
(*   CodecSpec      one Encoder, a byte stream cut into chunks, a Decoder  *)
(*   HandshakeSpec  client and server handshakes and the server's pumps    *)
(*   Spec           the primary's event loop, the pumps and the followers  *)
(*   OpenSpec       Spec, with clients that send what run_client would not *)
(*   LiveSpec       Spec, with the primary's fairness to its event channel *)
(*   FollowerSpec   run_client under a server that sends any message      *)
(*   DetectorSpec   one EdgeDetector, its configuration and the clock      *)
(*   ServerSpec     Server::start and Server::stop with connecting clients *)
(***************************************************************************)
EXTENDS Integers, Sequences, FiniteSets, TLC

VARIABLES
    \* ---- codec (src/protocol/codec.rs)
    encSeq,       \* Encoder.sequence of every encoder, as a 32-bit value
    issued,       \* history: the sequence fields each encoder wrote, in order
    startSeq,     \* history: the value of Encoder.sequence at the start of the run
    wire,         \* bytes written to the stream and not yet read
    read_buf,     \* the receiving side's buffer (Connection.read_buf)
    decoder,      \* Decoder.state
    encoded,      \* history: the frames the encoder produced, in order
    frameEnds,    \* history: the stream offset at which each encoded frame ends
    decoded,      \* history: the frames decode has returned, in order
    fed,          \* history: the number of stream bytes appended to read_buf
    lastCall,     \* history: the last decode call (buffer and state before, result)
    tampered,     \* history: bytes not produced by the encoder were put on the stream
    recvEof,      \* history: what Connection::recv returned when the stream
                  \* ended, "open" while it has not ended
    \* ---- connections (src/network/connection.rs, server.rs, client.rs)
    hsClient,     \* per connection, the dialing side: Client::connect and its pump
    hsServer,     \* per connection, the accepting side: handle_client
    c2s,          \* frames written client to server and not yet received
    s2c,          \* frames written server to client and not yet received
    c2sEof,       \* the client's socket is closed (the server reads EOF after c2s)
    s2cEof,       \* the server's socket is closed
    sent,         \* history: per connection, every frame written, in order
    hsRegistry,   \* Server.clients: the connections registered
    hsEvents,     \* history: the events sent on the server event channel
    hsLog,        \* history: the accept loop's log lines
    sOut,         \* per connection, the queue of the server-side ConnectionHandle
    cOut,         \* per connection, the queue of the client-side ConnectionHandle
    cShutdown,    \* per connection, the client's shutdown signal was sent
    beats,        \* heartbeat ticks so far, over all client pumps
    calls,        \* heartbeat ticks and application calls so far
    \* ---- the event loops (src/main.rs)
    control_state,  \* run_server: ControlState
    suppressing,    \* the capture's suppress flag (InputCapture::set_suppress)
    clients,        \* run_server: the Vec of connected clients, by address
    edge_detector,  \* run_server: its EdgeDetector
    event_rx,       \* the server event channel, unread events
    down,           \* per follower: messages accepted by Server::send_to and
                    \* not yet handled by run_client
    up,             \* per follower: messages accepted by Client::send and not
                    \* yet published by the server pump
    follower,       \* per follower: run_client's locals and its position
    inputs,         \* inputs from outside so far: capture events handled,
                    \* messages sent by a foreign client
    sentDown,       \* history: per follower, what send_to accepted
    sentUp,         \* history: per follower, what Client::send accepted
    cursor,         \* the primary's local cursor, as its capture reports it
    injected,       \* history: per follower, the calls made on its injector
    trace,          \* history: per follower, the messages that reached the
                    \* catch-all arm of run_client, with has_control
    \* ---- one edge detector on its own (src/screen/edge_detector.rs)
    config,         \* EdgeDetector.config
    clock,          \* the monotonic clock Instant::now reads, in ms
    results,        \* history: every check call (position, time, detector
                    \* before, result), in order
    \* ---- the Server object (src/network/server.rs)
    server,         \* Server.running, whether Server.shutdown_tx holds a sender,
                    \* whether the shutdown channel holds a signal, the accept
                    \* task, and the history of what start and stop returned
    \* ---- a screen layout (src/screen/layout.rs)
    layout,         \* ScreenLayout: screens (host id to neighbors) and
                    \* local_host_id
    layCalls,       \* history: whether only LayoutBuilder methods have been
                    \* called, and the last call with its arguments
    \* ---- a ConnectionHandle and its clones (src/network/connection.rs)
    handle,         \* the clones, the flag cells they point to, the queue,
                    \* its receiver, and the history of send calls
    \* ---- Server::send_to against one handle_client task (src/network/server.rs)
    locks,          \* the registry lock, the client's queue, the event
                    \* channel, and where the controller and the pump are
    \* ---- a Client that connect is called on from two tasks (src/network/client.rs)
    dial            \* Client.state, the stored handle, each caller's position,
                    \* the sockets opened and the pumps spawned

codecVars == <<encSeq, issued, startSeq, wire, read_buf, decoder, encoded,
               frameEnds, decoded, fed, lastCall, tampered, recvEof>>

hsVars == <<hsClient, hsServer, c2s, s2c, c2sEof, s2cEof, sent, hsRegistry,
            hsEvents, hsLog, sOut, cOut, cShutdown, beats, calls>>

ctlVars == <<control_state, suppressing, clients, edge_detector, event_rx, down,
             up, follower, inputs, sentDown, sentUp, cursor, injected, trace>>

detVars == <<config, clock, results>>

srvVars == <<server>>

layVars == <<layout, layCalls>>

objVars == <<handle, locks, dial>>

vars == <<codecVars, hsVars, ctlVars, detVars, srvVars, layVars, objVars>>

(***************************************************************************)
(* Bounds of the model.                                                    *)
(***************************************************************************)
MaxMsgs == 2        \* messages encoded in one run of CodecSpec
MaxChunk == 2       \* largest number of bytes one read appends to read_buf
MaxEncodes == 3     \* encode calls per encoder in one run of EncoderSpec
MaxInputs == 4      \* capture events the primary handles
MaxCalls == 2       \* heartbeat ticks and application calls (Client::send,
                    \* Client::disconnect, Server::send_to) on the connections
MaxServerCalls == 3 \* Server::start and Server::stop calls in one run of ServerSpec
MaxChecks == 4      \* EdgeDetector::check calls in one run of DetectorSpec
MaxTick == 2        \* most milliseconds that pass between two check calls

(***************************************************************************)
(* u32 values.  The model checker's integers are 32-bit signed, so a u32  *)
(* is kept as two 16-bit limbs: value = hi * 65536 + lo.                   *)
(***************************************************************************)
U32(n) == [hi |-> n \div 65536, lo |-> n % 65536]

U32Val(u) == u.hi * 65536 + u.lo

U32Max == [hi |-> 65535, lo |-> 65535]

\* u32::wrapping_add(1)
U32WrappingAdd1(u) ==
    IF u.lo = 65535 THEN [hi |-> (u.hi + 1) % 65536, lo |-> 0]
    ELSE [hi |-> u.hi, lo |-> u.lo + 1]

\* BufMut::put_u32: big-endian
U32ToBE(u) == <<u.hi \div 256, u.hi % 256, u.lo \div 256, u.lo % 256>>

\* u32::from_be_bytes
U32FromBE(b) == [hi |-> b[1] * 256 + b[2], lo |-> b[3] * 256 + b[4]]

\* u > n for a u32 u and a number n below 2^31
U32GtInt(u, n) ==
    \/ u.hi > n \div 65536
    \/ u.hi = n \div 65536 /\ u.lo > n % 65536

\* little-endian bytes of a number below 2^31, n bytes wide (bincode fixint)
RECURSIVE ToLE(_, _)
ToLE(v, n) == IF n = 0 THEN <<>> ELSE <<v % 256>> \o ToLE(v \div 256, n - 1)

RECURSIVE FromLE(_)
FromLE(b) == IF b = <<>> THEN 0 ELSE b[1] + 256 * FromLE(Tail(b))

Drop(s, n) == SubSeq(s, n + 1, Len(s))

Take(s, n) == SubSeq(s, 1, n)

(***************************************************************************)
(* Protocol constants.                                                     *)
(***************************************************************************)
PROTOCOL_VERSION == 1

MAGIC_BYTES == <<67, 78, 69, 84>>

MAX_MESSAGE_SIZE == 10485760

HEADER_SIZE == 13

\* screen::get_screen_dimensions, the same on every platform
ScreenWidth == 1920

ScreenHeight == 1080

(***************************************************************************)
(* Messages (src/protocol/message.rs) are records with a "type" field.    *)
(* The payload of a frame is bincode's serialization of the Message enum: *)
(* the variant's index as a little-endian u32, then the fields in order   *)
(* (integers fixed width little-endian, bool one byte, an enum field its  *)
(* variant index as u32, Option a tag byte, char its UTF-8 bytes).         *)
(***************************************************************************)
MsgTypes ==
    <<"Hello", "HelloAck", "MouseMoveRelative", "MouseMoveAbsolute",
      "MouseButton", "MouseScroll", "KeyDown", "KeyUp", "EnterScreen",
      "LeaveScreen", "ClipboardData", "ClipboardRequest", "GrabKeyboard",
      "ReleaseKeyboard", "Heartbeat", "HeartbeatAck", "Disconnect", "Error">>

\* the serde variant index of a message type: its place in the enum
VariantIndex(t) == (CHOOSE i \in 1..Len(MsgTypes) : MsgTypes[i] = t) - 1

\* Message::type_id
type_id(m) ==
    CASE m.type = "Hello" -> 1
      [] m.type = "HelloAck" -> 2
      [] m.type = "MouseMoveRelative" -> 16
      [] m.type = "MouseMoveAbsolute" -> 17
      [] m.type = "MouseButton" -> 18
      [] m.type = "MouseScroll" -> 19
      [] m.type = "KeyDown" -> 32
      [] m.type = "KeyUp" -> 33
      [] m.type = "EnterScreen" -> 48
      [] m.type = "LeaveScreen" -> 49
      [] m.type = "ClipboardData" -> 64
      [] m.type = "ClipboardRequest" -> 65
      [] m.type = "GrabKeyboard" -> 80
      [] m.type = "ReleaseKeyboard" -> 81
      [] m.type = "Heartbeat" -> 240
      [] m.type = "HeartbeatAck" -> 241
      [] m.type = "Disconnect" -> 254
      [] m.type = "Error" -> 255

MouseButtons == <<"Left", "Right", "Middle", "Button4", "Button5">>

ModifierNames == <<"shift", "ctrl", "alt", "meta", "caps_lock", "num_lock">>

NoModifiers == [n \in {ModifierNames[i] : i \in 1..6} |-> FALSE]

BoolByte(b) == IF b THEN 1 ELSE 0

\* an i32 as four little-endian bytes (two's complement)
I32ToLE(v) ==
    IF v >= 0 THEN ToLE(v, 4)
    ELSE [i \in 1..4 |-> 255 - ToLE(-v - 1, 4)[i]]

I32FromLE(b) ==
    IF b[4] >= 128 THEN -FromLE([i \in 1..4 |-> 255 - b[i]]) - 1
    ELSE FromLE(b)

\* bincode::serialize(message), for the message types the model encodes
Serialize(m) ==
    ToLE(VariantIndex(m.type), 4) \o
    CASE m.type = "MouseMoveRelative" -> I32ToLE(m.dx) \o I32ToLE(m.dy)
      [] m.type = "MouseButton" ->
            ToLE((CHOOSE i \in 1..5 : MouseButtons[i] = m.button) - 1, 4)
            \o <<BoolByte(m.pressed)>>
      [] m.type = "KeyDown" ->
            ToLE(m.keycode, 4)
            \o (IF m.character = <<>> THEN <<0>> ELSE <<1>> \o m.character)
            \o [i \in 1..6 |-> BoolByte(m.modifiers[ModifierNames[i]])]
      [] m.type \in {"Heartbeat", "HeartbeatAck"} -> ToLE(m.timestamp, 8)
      [] m.type \in {"ClipboardRequest", "GrabKeyboard", "ReleaseKeyboard"} -> <<>>

DeErr == [ok |-> FALSE]

DeOk(m) == [ok |-> TRUE, message |-> m]

\* bincode::deserialize(&payload): the inverse parse; bytes after the value
\* are allowed, a missing byte, an unknown variant or a bad bool is an error
Deserialize(p) ==
    IF Len(p) < 4 \/ p[2] # 0 \/ p[3] # 0 \/ p[4] # 0 \/ p[1] >= Len(MsgTypes)
    THEN DeErr
    ELSE LET t == MsgTypes[p[1] + 1]
             f == Drop(p, 4)
         IN CASE t = "MouseMoveRelative" ->
                   IF Len(f) < 8 THEN DeErr
                   ELSE DeOk([type |-> t, dx |-> I32FromLE(Take(f, 4)),
                              dy |-> I32FromLE(SubSeq(f, 5, 8))])
              [] t = "MouseButton" ->
                   IF Len(f) < 5 \/ f[2] # 0 \/ f[3] # 0 \/ f[4] # 0
                      \/ f[1] > 4 \/ f[5] > 1
                   THEN DeErr
                   ELSE DeOk([type |-> t, button |-> MouseButtons[f[1] + 1],
                              pressed |-> f[5] = 1])
              [] t = "KeyDown" ->
                   IF Len(f) < 5 \/ f[5] > 1 THEN DeErr
                   ELSE LET some == f[5] = 1
                            g == Drop(f, IF some THEN 6 ELSE 5)
                        IN IF (some /\ (Len(f) < 6 \/ f[6] >= 128)) \/ Len(g) < 6
                              \/ \E i \in 1..6 : g[i] > 1
                           THEN DeErr
                           ELSE DeOk([type |-> t,
                                      keycode |-> FromLE(Take(f, 4)),
                                      character |-> IF some THEN <<f[6]>> ELSE <<>>,
                                      modifiers |->
                                        [n \in DOMAIN NoModifiers |->
                                          g[CHOOSE i \in 1..6 : ModifierNames[i] = n] = 1]])
              [] t \in {"Heartbeat", "HeartbeatAck"} ->
                   IF Len(f) < 8 THEN DeErr
                   ELSE DeOk([type |-> t, timestamp |-> FromLE(Take(f, 8))])
              [] t \in {"ClipboardRequest", "GrabKeyboard", "ReleaseKeyboard"} ->
                   DeOk([type |-> t])
              [] OTHER -> DeErr

(***************************************************************************)
(* Encoder and Decoder (src/protocol/codec.rs).                            *)
(***************************************************************************)
EncOk(bytes, seq) == [ok |-> TRUE, bytes |-> bytes, sequence |-> seq]

\* an encode that stamps the frame and leaves the counter where it was
EncodeNoAdvance(sequence, message) ==
    EncOk(MAGIC_BYTES \o <<type_id(message)>>
          \o U32ToBE(U32(Len(Serialize(message)))) \o U32ToBE(sequence)
          \o Serialize(message), sequence)

\* Encoder::encode with the counter at `sequence`: the bytes appended to the
\* buffer and the counter afterwards
Encode(sequence, message) ==
    LET payload == Serialize(message)
    IN IF Len(payload) > MAX_MESSAGE_SIZE
       THEN [ok |-> FALSE, bytes |-> <<>>, sequence |-> sequence]
       ELSE EncOk(MAGIC_BYTES \o <<type_id(message)>>
                  \o U32ToBE(U32(Len(payload))) \o U32ToBE(sequence)
                  \o payload, U32WrappingAdd1(sequence))

HeaderState == [state |-> "Header"]

Frame(sequence, message) == [sequence |-> sequence, message |-> message]

NeedMore == [kind |-> "None"]

DecErr(e) == [kind |-> "Err", err |-> e]

DecOut(dec, buf, res) == [decoder |-> dec, buf |-> buf, result |-> res]

\* a payload step that returns the frame without going back to Header
DecodePayloadKeepsState(dec, buf) ==
    IF U32GtInt(dec.length, Len(buf)) THEN DecOut(dec, buf, NeedMore)
    ELSE LET n == U32Val(dec.length)
             d == Deserialize(Take(buf, n))
         IN IF d.ok
            THEN DecOut(dec, Drop(buf, n),
                        [kind |-> "Frame", frame |-> Frame(dec.sequence, d.message)])
            ELSE DecOut(dec, Drop(buf, n), DecErr("Serialization"))

\* Decoder::decode in state Payload: buf.len() < length returns Ok(None);
\* otherwise split_to(length), deserialize, and only on success go back to
\* Header and return the frame
DecodePayload(dec, buf) ==
    IF U32GtInt(dec.length, Len(buf)) THEN DecOut(dec, buf, NeedMore)
    ELSE LET n == U32Val(dec.length)
             d == Deserialize(Take(buf, n))
         IN IF d.ok
            THEN DecOut(HeaderState, Drop(buf, n),
                        [kind |-> "Frame", frame |-> Frame(dec.sequence, d.message)])
            ELSE DecOut(dec, Drop(buf, n), DecErr("Serialization"))

\* a header step that trusts the magic and the length field
DecodeHeaderNoChecks(buf) ==
    IF Len(buf) < HEADER_SIZE THEN DecOut(HeaderState, buf, NeedMore)
    ELSE DecodePayload([state |-> "Payload", message_type |-> buf[5],
                        length |-> U32FromBE(SubSeq(buf, 6, 9)),
                        sequence |-> U32FromBE(SubSeq(buf, 10, 13))],
                       Drop(buf, HEADER_SIZE))

\* Decoder::decode in state Header, with the checks in the code's order
DecodeHeader(buf) ==
    IF Len(buf) < HEADER_SIZE THEN DecOut(HeaderState, buf, NeedMore)
    ELSE IF Take(buf, 4) # MAGIC_BYTES
    THEN DecOut(HeaderState, buf, DecErr("InvalidMagic"))
    ELSE LET message_type == buf[5]
             length == U32FromBE(SubSeq(buf, 6, 9))
             sequence == U32FromBE(SubSeq(buf, 10, 13))
         IN IF U32GtInt(length, MAX_MESSAGE_SIZE)
            THEN DecOut(HeaderState, buf, DecErr("MessageTooLarge"))
            ELSE DecodePayload([state |-> "Payload", message_type |-> message_type,
                                length |-> length, sequence |-> sequence],
                               Drop(buf, HEADER_SIZE))

\* Decoder::decode
Decode(dec, buf) ==
    IF dec.state = "Header" THEN DecodeHeader(buf) ELSE DecodePayload(dec, buf)

(***************************************************************************)
(* EncoderSpec: the encoders of the two directions of one connection and  *)
(* of another connection (every Connection::new makes its own Encoder).    *)
(* An encoder starts fresh (sequence 0) or as it is after 2^32 - 2 encode *)
(* calls, so that the wrap of the counter is within reach.                 *)
(***************************************************************************)
Encoders == {"a.c2s", "a.s2c", "b.c2s"}

CodecEncoder == "a.c2s"

StartSeqs == {U32(0), [hi |-> 65535, lo |-> 65534]}

CodecMsgs ==
    { [type |-> "Heartbeat", timestamp |-> 12345],
      [type |-> "MouseButton", button |-> "Left", pressed |-> TRUE],
      [type |-> "KeyDown", keycode |-> 4, character |-> <<97>>,
       modifiers |-> [NoModifiers EXCEPT !["shift"] = TRUE]] }

NoCall ==
    [kind |-> "none", buf |-> <<>>, state |-> "Header",
     result |-> [kind |-> "NoResult"], after |-> <<>>]

CodecIdle ==
    /\ wire = <<>>
    /\ read_buf = <<>>
    /\ decoder = HeaderState
    /\ encoded = <<>>
    /\ frameEnds = <<>>
    /\ decoded = <<>>
    /\ fed = 0
    /\ lastCall = NoCall
    /\ tampered = FALSE
    /\ recvEof = "open"

EncodersFresh ==
    /\ encSeq = [e \in Encoders |-> U32(0)]
    /\ startSeq = encSeq
    /\ issued = [e \in Encoders |-> <<>>]

EncoderInit ==
    /\ encSeq \in [Encoders -> StartSeqs]
    /\ startSeq = encSeq
    /\ issued = [e \in Encoders |-> <<>>]
    /\ CodecIdle

\* one encode call on encoder e; the history keeps the header's sequence field
EncoderEncode(e, m) ==
    LET r == Encode(encSeq[e], m)
    IN /\ Len(issued[e]) < MaxEncodes
       /\ r.ok
       /\ encSeq' = [encSeq EXCEPT ![e] = r.sequence]
       /\ issued' = [issued EXCEPT
                       ![e] = Append(@, U32FromBE(SubSeq(r.bytes, 10, 13)))]
       /\ UNCHANGED <<startSeq, wire, read_buf, decoder, encoded, frameEnds,
                      decoded, fed, lastCall, tampered, recvEof>>
       /\ UNCHANGED <<hsVars, ctlVars, detVars, srvVars, layVars, objVars>>

EncoderNext == \E e \in Encoders, m \in CodecMsgs : EncoderEncode(e, m)

(***************************************************************************)
(* CodecSpec: one encoder writes frames to a stream; the stream reaches    *)
(* the receiver's read_buf in chunks of any size; decode is called on the *)
(* buffer.  The stream may also carry, after the encoder's frames, bytes   *)
(* no encoder produced (a damaged or foreign header).                      *)
(***************************************************************************)
HeaderBytes(magic, len4) == magic \o <<65>> \o len4 \o <<0, 0, 0, 0>>

TamperFrames ==
    { HeaderBytes(<<67, 78, 69, 85>>, <<0, 0, 0, 4>>),      \* bad magic
      HeaderBytes(<<0, 78, 69, 84>>, <<0, 160, 0, 1>>),     \* bad magic, length too large
      HeaderBytes(MAGIC_BYTES, <<0, 160, 0, 1>>),           \* 10 MiB + 1
      HeaderBytes(MAGIC_BYTES, <<255, 255, 255, 255>>),     \* 2^32 - 1
      HeaderBytes(MAGIC_BYTES, <<0, 160, 0, 0>>),           \* exactly 10 MiB
      HeaderBytes(MAGIC_BYTES, <<0, 0, 0, 2>>) \o <<11, 0>> \* truncated payload
    }

CodecInit == EncodersFresh /\ CodecIdle

CodecEncode(m) ==
    LET r == Encode(encSeq[CodecEncoder], m)
    IN /\ ~tampered
       /\ recvEof = "open"
       /\ Len(encoded) < MaxMsgs
       /\ r.ok
       /\ encSeq' = [encSeq EXCEPT ![CodecEncoder] = r.sequence]
       /\ wire' = wire \o r.bytes
       /\ encoded' = Append(encoded, Frame(encSeq[CodecEncoder], m))
       /\ frameEnds' = Append(frameEnds, fed + Len(wire) + Len(r.bytes))
       /\ UNCHANGED <<issued, startSeq, read_buf, decoder, decoded, fed,
                      lastCall, tampered, recvEof>>
       /\ UNCHANGED <<hsVars, ctlVars, detVars, srvVars, layVars, objVars>>

CodecTamper(h) ==
    /\ ~tampered
    /\ recvEof = "open"
    /\ tampered' = TRUE
    /\ wire' = wire \o h
    /\ UNCHANGED <<encSeq, issued, startSeq, read_buf, decoder, encoded,
                   frameEnds, decoded, fed, lastCall, recvEof>>
    /\ UNCHANGED <<hsVars, ctlVars, detVars, srvVars, layVars, objVars>>

\* a read of k bytes from the stream: read_buf.extend_from_slice(&buf[..n])
CodecFeed(k) ==
    /\ recvEof = "open"
    /\ k <= Len(wire)
    /\ read_buf' = read_buf \o Take(wire, k)
    /\ wire' = Drop(wire, k)
    /\ fed' = fed + k
    /\ lastCall' = NoCall
    /\ UNCHANGED <<encSeq, issued, startSeq, decoder, encoded, frameEnds,
                   decoded, tampered, recvEof>>
    /\ UNCHANGED <<hsVars, ctlVars, detVars, srvVars, layVars, objVars>>

\* one call decoder.decode(&mut read_buf)
CodecDecode ==
    LET r == Decode(decoder, read_buf)
    IN /\ recvEof = "open"
       /\ decoder' = r.decoder
       /\ read_buf' = r.buf
       /\ decoded' = IF r.result.kind = "Frame"
                     THEN Append(decoded, r.result.frame) ELSE decoded
       /\ lastCall' = [kind |-> "decode", buf |-> read_buf,
                       state |-> decoder.state, result |-> r.result,
                       after |-> r.buf]
       /\ UNCHANGED <<encSeq, issued, startSeq, wire, encoded, frameEnds,
                      fed, tampered, recvEof>>
       /\ UNCHANGED <<hsVars, ctlVars, detVars, srvVars, layVars, objVars>>

\* Connection::recv when the stream has ended: decode has returned None,
\* leaving buf in read_buf, and read returns 0
RecvAtEof(buf) == IF buf = <<>> THEN "OkNone" ELSE "Closed"

\* the peer's stream ends after the bytes read so far (what is still on the
\* wire never arrives) and recv runs to its return: decode, then a read of
\* 0 bytes
CodecRecvEof ==
    LET r == Decode(decoder, read_buf)
    IN /\ recvEof = "open"
       /\ r.result.kind = "None"
       /\ decoder' = r.decoder
       /\ read_buf' = r.buf
       /\ wire' = <<>>
       /\ recvEof' = RecvAtEof(r.buf)
       /\ lastCall' = [kind |-> "decode", buf |-> read_buf,
                       state |-> decoder.state, result |-> r.result,
                       after |-> r.buf]
       /\ UNCHANGED <<encSeq, issued, startSeq, encoded, frameEnds, decoded,
                      fed, tampered>>
       /\ UNCHANGED <<hsVars, ctlVars, detVars, srvVars, layVars, objVars>>

CodecNext ==
    \/ \E m \in CodecMsgs : CodecEncode(m)
    \/ \E h \in TamperFrames : CodecTamper(h)
    \/ \E k \in 1..MaxChunk : CodecFeed(k)
    \/ CodecDecode
    \/ CodecRecvEof


(***************************************************************************)
(* An f32 is [neg, m, e]: the value (-1)^neg * m * 2^e with m = 0 or       *)
(* 2^23 <= m < 2^24.  Division and multiplication round to nearest, ties   *)
(* to even, as the hardware does; all coordinates stay below 2^12.         *)
(***************************************************************************)
RECURSIVE Pow2(_)
Pow2(n) == IF n = 0 THEN 1 ELSE 2 * Pow2(n - 1)

\* number of binary digits of n > 0
RECURSIVE Bits(_)
Bits(n) == IF n = 0 THEN 0 ELSE 1 + Bits(n \div 2)

F32Zero == [neg |-> FALSE, m |-> 0, e |-> 0]

F32One == [neg |-> FALSE, m |-> Pow2(23), e |-> -23]

\* (i + r / den) * 2^e with 2^23 <= i < 2^24 and r < den, rounded to
\* nearest, ties to even
F32Round(neg, i, r, den, e) ==
    LET away == 2 * r > den \/ (2 * r = den /\ i % 2 = 1)
        j == IF away THEN i + 1 ELSE i
    IN IF j = Pow2(24) THEN [neg |-> neg, m |-> Pow2(23), e |-> e + 1]
                       ELSE [neg |-> neg, m |-> j, e |-> e]

\* 23 further quotient digits of num / den, 1 <= num / den < 2
RECURSIVE DivDigits(_, _, _, _)
DivDigits(q, r, den, n) ==
    IF n = 0 THEN [q |-> q, r |-> r]
    ELSE IF 2 * r >= den THEN DivDigits(2 * q + 1, 2 * r - den, den, n - 1)
                         ELSE DivDigits(2 * q, 2 * r, den, n - 1)

\* `a as f32 / b as f32` for integers |a| < 2^12, 0 < b < 2^12
F32Div(a, b) ==
    IF a = 0 THEN F32Zero
    ELSE LET n == IF a < 0 THEN -a ELSE a
             k == Bits(n) - Bits(b) - (IF n * Pow2(12 - Bits(n)) < b * Pow2(12 - Bits(b))
                                       THEN 1 ELSE 0)
             num == IF k < 0 THEN n * Pow2(-k) ELSE n
             den == IF k < 0 THEN b ELSE b * Pow2(k)
             d == DivDigits(1, num - den, den, 23)
         IN F32Round(a < 0, d.q, d.r, den, k - 23)

\* f.clamp(0.0, 1.0)
F32Clamp01(f) ==
    IF f.m = 0 \/ f.neg THEN F32Zero
    ELSE IF f.e > -23 THEN F32One
    ELSE f

\* `(f * b as f32) as i32` for 0 < b < 2^12: the product is rounded to an
\* f32, then truncated toward zero
F32MulToI32(f, b) ==
    IF f.m = 0 THEN 0
    ELSE LET hi == (f.m \div 4096) * b + ((f.m % 4096) * b) \div 4096
             lo == ((f.m % 4096) * b) % 4096
             d == Bits(hi) - 12
             i == hi * Pow2(12 - d) + lo \div Pow2(d)
             r == lo % Pow2(d)
             p == F32Round(f.neg, i, r, Pow2(d), f.e + d)
             mag == IF p.e >= 0 THEN p.m * Pow2(p.e)
                    ELSE IF -p.e > 24 THEN 0
                    ELSE p.m \div Pow2(-p.e)
         IN IF f.neg THEN -mag ELSE mag


\* Message::EnterScreen and Message::LeaveScreen
EnterScreen(edge, position) ==
    [type |-> "EnterScreen", edge |-> edge, position |-> position]

LeaveScreen(edge, position) ==
    [type |-> "LeaveScreen", edge |-> edge, position |-> position]

(***************************************************************************)
(* Connections: Connection::handshake_server and handshake_client          *)
(* (src/network/connection.rs), handle_client and the accept loop          *)
(* (src/network/server.rs), Client::connect and its pump                   *)
(* (src/network/client.rs).  Frames travel as messages here; their bytes   *)
(* are the subject of CodecSpec.                                           *)
(*                                                                         *)
(* A client is this repository's client built with protocol version 1 or   *)
(* with a later version 2 (PROTOCOL_VERSION is a compile-time constant).   *)
(***************************************************************************)
Conns == {"c1", "c2"}

ClientVersions == {PROTOCOL_VERSION, PROTOCOL_VERSION + 1}

ServerScreen == [host_id |-> "A", width |-> ScreenWidth, height |-> ScreenHeight]

ClientScreen(c) == [host_id |-> c, width |-> ScreenWidth, height |-> ScreenHeight]

Hello(v, screen) ==
    [type |-> "Hello", protocol_version |-> v, screen_info |-> screen]

HelloAck(v, screen, accepted, reason) ==
    [type |-> "HelloAck", protocol_version |-> v, screen_info |-> screen,
     accepted |-> accepted, reason |-> reason]

Heartbeat(ts) == [type |-> "Heartbeat", timestamp |-> ts]

\* an acknowledgement that carries no timestamp of the request
HeartbeatAckZero(ts) == [type |-> "HeartbeatAck", timestamp |-> 0]

HeartbeatAck(ts) == [type |-> "HeartbeatAck", timestamp |-> ts]

Disconnect(reason) == [type |-> "Disconnect", reason |-> reason]

\* Option<String>
None == <<>>

Some(x) == <<x>>

\* format!("Protocol version mismatch: expected {}, got {}", ..)
MismatchReason(expected, got) ==
    [text |-> "Protocol version mismatch: expected {}, got {}",
     expected |-> expected, got |-> got]

Text(t) == [text |-> t]

\* ConnectionError
HandshakeFailed(reason) == [err |-> "HandshakeFailed", reason |-> reason]

VersionMismatch(local, remote) ==
    [err |-> "VersionMismatch", local |-> local, remote |-> remote]

Ok == [err |-> "none"]

Pending == [err |-> "pending"]

HsOut(send, result, state) == [send |-> send, result |-> result, state |-> state]

\* a server handshake that does not compare versions
HandshakeServerAcceptsAll(first) ==
    IF first.type # "Hello"
    THEN HsOut(<<>>, HandshakeFailed(Text("Expected Hello message")), "Connecting")
    ELSE HsOut(<<HelloAck(PROTOCOL_VERSION, ServerScreen, TRUE, None)>>,
               Ok, "Connected")

\* Connection::handshake_server once recv has returned `first`: the frames
\* it sends, its result, and Connection.state afterwards
HandshakeServer(first) ==
    IF first.type # "Hello"
    THEN HsOut(<<>>, HandshakeFailed(Text("Expected Hello message")), "Connecting")
    ELSE IF first.protocol_version # PROTOCOL_VERSION
    THEN HsOut(<<HelloAck(PROTOCOL_VERSION, ServerScreen, FALSE,
                          Some(MismatchReason(PROTOCOL_VERSION,
                                              first.protocol_version)))>>,
               VersionMismatch(PROTOCOL_VERSION, first.protocol_version),
               "Connecting")
    ELSE HsOut(<<HelloAck(PROTOCOL_VERSION, ServerScreen, TRUE, None)>>,
               Ok, "Connected")

\* a client handshake that compares versions before it looks at `accepted`
HandshakeClientVersionFirst(local, frame) ==
    IF frame.type # "HelloAck"
    THEN HsOut(<<>>, HandshakeFailed(Text("Expected HelloAck message")), "Connecting")
    ELSE IF frame.protocol_version # local
    THEN HsOut(<<>>, VersionMismatch(local, frame.protocol_version), "Connecting")
    ELSE IF ~frame.accepted
    THEN HsOut(<<>>,
               HandshakeFailed(IF frame.reason = None
                               THEN Text("Connection rejected")
                               ELSE frame.reason[1]),
               "Connecting")
    ELSE HsOut(<<>>, Ok, "Connected")

\* Connection::handshake_client, built with protocol version `local`, once
\* recv has returned `frame` in answer to its Hello
HandshakeClient(local, frame) ==
    IF frame.type # "HelloAck"
    THEN HsOut(<<>>, HandshakeFailed(Text("Expected HelloAck message")), "Connecting")
    ELSE IF ~frame.accepted
    THEN HsOut(<<>>,
               HandshakeFailed(IF frame.reason = None
                               THEN Text("Connection rejected")
                               ELSE frame.reason[1]),
               "Connecting")
    ELSE IF frame.protocol_version # local
    THEN HsOut(<<>>, VersionMismatch(local, frame.protocol_version), "Connecting")
    ELSE HsOut(<<>>, Ok, "Connected")

\* handshake_*: recv returned Ok(None), the stream ended before a frame
HandshakeEof ==
    HsOut(<<>>, HandshakeFailed(Text("Connection closed during handshake")),
          "Connecting")

\* ServerEvent
ClientConnected(c, screen) ==
    [event |-> "ClientConnected", addr |-> c, screen_info |-> screen]

ClientDisconnected(c, reason) ==
    [event |-> "ClientDisconnected", addr |-> c, reason |-> reason]

MessageReceived(c, m) == [event |-> "MessageReceived", addr |-> c, message |-> m]

Written(dir, m) == [dir |-> dir, message |-> m]

RECURSIVE Writes(_, _)
Writes(dir, ms) ==
    IF ms = <<>> THEN <<>> ELSE <<Written(dir, Head(ms))>> \o Writes(dir, Tail(ms))

HsInit ==
    /\ hsClient = [c \in Conns |->
                     [pc |-> "idle", version |-> PROTOCOL_VERSION,
                      state |-> "Disconnected", conn |-> "none",
                      result |-> Pending, reason |-> Text(""),
                      last |-> None]]
    /\ hsServer = [c \in Conns |->
                     [pc |-> "listening", conn |-> "none", result |-> Pending,
                      reason |-> Text("")]]
    /\ c2s = [c \in Conns |-> <<>>]
    /\ s2c = [c \in Conns |-> <<>>]
    /\ c2sEof = [c \in Conns |-> FALSE]
    /\ s2cEof = [c \in Conns |-> FALSE]
    /\ sent = [c \in Conns |-> <<>>]
    /\ hsRegistry = {}
    /\ hsEvents = <<>>
    /\ hsLog = <<>>
    /\ sOut = [c \in Conns |-> <<>>]
    /\ cOut = [c \in Conns |-> <<>>]
    /\ cShutdown = [c \in Conns |-> FALSE]
    /\ beats = 0
    /\ calls = 0


\* a receiver that hands out the message enqueued last
RecvNewest(queue) ==
    [message |-> queue[Len(queue)], rest |-> SubSeq(queue, 1, Len(queue) - 1)]

\* mpsc::Receiver::recv on a channel that holds messages: the oldest message,
\* and the channel without it
Recv(queue) == [message |-> Head(queue), rest |-> Tail(queue)]

\* a write on a socket whose peer is gone may still be buffered or may fail
WriteOutcomes(peerClosed) == IF peerClosed THEN {TRUE, FALSE} ELSE {TRUE}

\* Client::connect up to the first await of handshake_client's recv; the
\* TCP connection is made while the server's listener is bound
ClientConnect(c, v) ==
    /\ server.accept = "loop"
    /\ hsClient[c].pc = "idle"
    /\ hsClient' = [hsClient EXCEPT ![c].pc = "awaitAck", ![c].version = v,
                                    ![c].state = "Connecting",
                                    ![c].conn = "Connecting"]
    /\ c2s' = [c2s EXCEPT ![c] = Append(@, Hello(v, ClientScreen(c)))]
    /\ sent' = [sent EXCEPT ![c] = Append(@, Written("c2s", Hello(v, ClientScreen(c))))]
    /\ UNCHANGED <<hsServer, s2c, c2sEof, s2cEof, hsRegistry, hsEvents,
                   hsLog, sOut, cOut, cShutdown, beats, calls, codecVars,
                   ctlVars, detVars, srvVars, layVars, objVars>>

\* Client::connect from the answer to its Hello to its return
ClientHandshake(c) ==
    /\ hsClient[c].pc = "awaitAck"
    /\ s2c[c] # <<>> \/ s2cEof[c]
    /\ LET out == IF s2c[c] # <<>>
                  THEN HandshakeClient(hsClient[c].version, Head(s2c[c]))
                  ELSE HandshakeEof
       IN /\ hsClient' = [hsClient EXCEPT
                 ![c].pc = IF out.result = Ok THEN "pump" ELSE "failed",
                 ![c].conn = out.state,
                 ![c].state = IF out.result = Ok THEN "Connected" ELSE "Disconnected",
                 ![c].result = out.result]
          /\ c2sEof' = [c2sEof EXCEPT ![c] = out.result # Ok]
    /\ s2c' = [s2c EXCEPT ![c] = IF @ = <<>> THEN @ ELSE Tail(@)]
    /\ UNCHANGED <<hsServer, c2s, s2cEof, sent, hsRegistry, hsEvents, hsLog,
                   sOut, cOut, cShutdown, beats, calls, codecVars, ctlVars, detVars, srvVars, layVars, objVars>>

\* a pump spawned before the handshake has returned
PumpStartedEarly(c) == hsClient[c].pc \in {"awaitAck", "pump"}

\* the client's pump task exists: it is spawned once the handshake returned
PumpStarted(c) == hsClient[c].pc = "pump"

\* pump: heartbeat_timer.tick()
ClientHeartbeatTick(c) ==
    /\ PumpStarted(c)
    /\ calls < MaxCalls
    /\ calls' = calls + 1
    /\ beats' = beats + 1
    /\ \E ok \in WriteOutcomes(s2cEof[c]) :
         IF ok
         THEN /\ c2s' = [c2s EXCEPT ![c] = Append(@, Heartbeat(beats + 1))]
              /\ sent' = [sent EXCEPT ![c] =
                            Append(@, Written("c2s", Heartbeat(beats + 1)))]
              /\ UNCHANGED hsClient
         ELSE /\ hsClient' = [hsClient EXCEPT ![c].pc = "cleanup",
                                ![c].reason = Text("Heartbeat error: {}")]
              /\ UNCHANGED <<c2s, sent>>
    /\ UNCHANGED <<hsServer, s2c, c2sEof, s2cEof, hsRegistry, hsEvents,
                   hsLog, sOut, cOut, cShutdown, codecVars, ctlVars, detVars, srvVars, layVars, objVars>>

\* pump: conn.recv()
ClientPumpRecv(c) ==
    /\ hsClient[c].pc = "pump"
    /\ s2c[c] # <<>> \/ s2cEof[c]
    /\ IF s2c[c] = <<>>
       THEN /\ hsClient' = [hsClient EXCEPT ![c].pc = "cleanup",
                              ![c].reason = Text("Connection closed")]
            /\ UNCHANGED <<s2c, c2s, sent>>
       ELSE /\ s2c' = [s2c EXCEPT ![c] = Tail(@)]
            /\ LET m == Head(s2c[c])
               IN CASE m.type = "Disconnect" ->
                         /\ hsClient' = [hsClient EXCEPT ![c].pc = "cleanup",
                                           ![c].reason = m.reason]
                         /\ UNCHANGED <<c2s, sent>>
                    [] m.type = "Heartbeat" ->
                         /\ \E ok \in WriteOutcomes(s2cEof[c]) :
                              IF ok
                              THEN /\ c2s' = [c2s EXCEPT ![c] =
                                                Append(@, HeartbeatAck(m.timestamp))]
                                   /\ sent' = [sent EXCEPT ![c] =
                                                Append(@, Written("c2s",
                                                     HeartbeatAck(m.timestamp)))]
                              ELSE UNCHANGED <<c2s, sent>>
                         /\ UNCHANGED hsClient
                    [] OTHER -> UNCHANGED <<hsClient, c2s, sent>>
    /\ UNCHANGED <<hsServer, c2sEof, s2cEof, hsRegistry, hsEvents, hsLog,
                   sOut, cOut, cShutdown, beats, calls, codecVars, ctlVars, detVars, srvVars, layVars, objVars>>

\* pump: msg_rx.recv()
ClientPumpSend(c) ==
    /\ hsClient[c].pc = "pump"
    /\ cOut[c] # <<>>
    /\ cOut' = [cOut EXCEPT ![c] = Recv(@).rest]
    /\ \E ok \in WriteOutcomes(s2cEof[c]) :
         IF ok
         THEN /\ c2s' = [c2s EXCEPT ![c] = Append(@, Recv(cOut[c]).message)]
              /\ sent' = [sent EXCEPT ![c] =
                            Append(@, Written("c2s", Recv(cOut[c]).message))]
              /\ UNCHANGED hsClient
         ELSE /\ hsClient' = [hsClient EXCEPT ![c].pc = "cleanup",
                                ![c].reason = Text("Send error: {}")]
              /\ UNCHANGED <<c2s, sent>>
    /\ UNCHANGED <<hsServer, s2c, c2sEof, s2cEof, hsRegistry, hsEvents,
                   hsLog, sOut, cShutdown, beats, calls, codecVars,
                   ctlVars, detVars, srvVars, layVars, objVars>>

\* pump: shutdown_rx.recv()
ClientPumpShutdown(c) ==
    /\ hsClient[c].pc = "pump"
    /\ cShutdown[c]
    /\ hsClient' = [hsClient EXCEPT ![c].pc = "cleanup",
                      ![c].reason = Text("Client shutdown requested")]
    /\ UNCHANGED <<hsServer, c2s, s2c, c2sEof, s2cEof, sent, hsRegistry,
                   hsEvents, hsLog, sOut, cOut, cShutdown, beats, calls,
                   codecVars, ctlVars, detVars, srvVars, layVars, objVars>>

\* Client::send while the handle is stored and marked connected; the message
\* names another edge on every call, so that no two messages sent are equal
ClientSend(c) ==
    /\ hsClient[c].pc = "pump"
    /\ calls < MaxCalls
    /\ calls' = calls + 1
    /\ LET edge == <<"Left", "Top", "Right", "Bottom">>[(calls % 4) + 1]
       IN cOut' = [cOut EXCEPT ![c] = Append(@, LeaveScreen(edge, F32One))]
    /\ UNCHANGED <<hsClient, hsServer, c2s, s2c, c2sEof, s2cEof, sent, hsRegistry,
                   hsEvents, hsLog, sOut, cShutdown, beats, codecVars,
                   ctlVars, detVars, srvVars, layVars, objVars>>

\* Client::disconnect
ClientDisconnect(c) ==
    /\ hsClient[c].pc = "pump"
    /\ ~cShutdown[c]
    /\ calls < MaxCalls
    /\ calls' = calls + 1
    /\ cOut' = [cOut EXCEPT ![c] = Append(@, Disconnect(Text("Client disconnecting")))]
    /\ cShutdown' = [cShutdown EXCEPT ![c] = TRUE]
    /\ UNCHANGED <<hsClient, hsServer, c2s, s2c, c2sEof, s2cEof, sent,
                   hsRegistry, hsEvents, hsLog, sOut, beats,
                   codecVars, ctlVars, detVars, srvVars, layVars, objVars>>

\* the pump after its loop: mark_disconnected, handle and state cleared,
\* Connection::close(reason), then the socket is dropped
ClientCleanup(c) ==
    /\ hsClient[c].pc = "cleanup"
    /\ \E ok \in WriteOutcomes(s2cEof[c]), shut \in WriteOutcomes(s2cEof[c]) :
         /\ hsClient' = [hsClient EXCEPT ![c].pc = "done",
                           ![c].state = "Disconnected",
                           ![c].conn = IF ok /\ shut THEN "Closed" ELSE "Closing"]
         /\ IF ok
            THEN /\ c2s' = [c2s EXCEPT ![c] = Append(@, Disconnect(hsClient[c].reason))]
                 /\ sent' = [sent EXCEPT ![c] =
                               Append(@, Written("c2s", Disconnect(hsClient[c].reason)))]
            ELSE UNCHANGED <<c2s, sent>>
    /\ c2sEof' = [c2sEof EXCEPT ![c] = TRUE]
    /\ UNCHANGED <<hsServer, s2c, s2cEof, hsRegistry, hsEvents, hsLog, sOut,
                   cOut, cShutdown, beats, calls, codecVars, ctlVars, detVars, srvVars, layVars, objVars>>

\* a handler that runs its clean-up when the handshake fails
HandlerCleansUpOnError(result) == IF result = Ok THEN "handshaken" ELSE "cleanup"

\* handle_client: where the task goes once handshake_server has returned;
\* the `?` returns the error to the task that spawned it
HandlerAfterHandshake(result) == IF result = Ok THEN "handshaken" ELSE "failed"

\* the accept loop: listener.accept() returned the connection, its task is
\* spawned and has built its Connection
ServerAccept(c) ==
    /\ server.accept = "loop"
    /\ hsClient[c].pc # "idle"
    /\ hsServer[c].pc = "listening"
    /\ hsServer' = [hsServer EXCEPT ![c].pc = "awaitHello", ![c].conn = "Connecting"]
    /\ hsLog' = Append(hsLog, [line |-> "New connection from {}", addr |-> c])
    /\ UNCHANGED <<hsClient, c2s, s2c, c2sEof, s2cEof, sent, hsRegistry,
                   hsEvents, sOut, cOut, cShutdown, beats, calls,
                   codecVars, ctlVars, detVars, srvVars, layVars, objVars>>

\* handle_client: conn.handshake_server(..).await? and, when it fails, the
\* return through the task that logs the error and drops the connection
ServerHandshake(c) ==
    /\ hsServer[c].pc = "awaitHello"
    /\ c2s[c] # <<>> \/ c2sEof[c]
    /\ LET out == IF c2s[c] # <<>> THEN HandshakeServer(Head(c2s[c]))
                                   ELSE HandshakeEof
       IN /\ hsServer' = [hsServer EXCEPT
                 ![c].pc = HandlerAfterHandshake(out.result),
                 ![c].conn = out.state,
                 ![c].result = out.result]
          /\ s2c' = [s2c EXCEPT ![c] = @ \o out.send]
          /\ sent' = [sent EXCEPT ![c] = @ \o Writes("s2c", out.send)]
          /\ s2cEof' = [s2cEof EXCEPT ![c] = out.result # Ok]
          /\ hsLog' = IF out.result = Ok THEN hsLog
                      ELSE Append(hsLog, [line |-> "Client handler error: {}",
                                          addr |-> c])
    /\ c2s' = [c2s EXCEPT ![c] = IF @ = <<>> THEN @ ELSE Tail(@)]
    /\ UNCHANGED <<hsClient, c2sEof, hsRegistry, hsEvents, sOut, cOut,
                   cShutdown, beats, calls, codecVars, ctlVars, detVars, srvVars, layVars, objVars>>

\* handle_client after the handshake: the handle is created, the client is
\* inserted in the registry and ClientConnected is sent
ServerRegister(c) ==
    /\ hsServer[c].pc = "handshaken"
    /\ hsServer' = [hsServer EXCEPT ![c].pc = "pump"]
    /\ hsRegistry' = hsRegistry \cup {c}
    /\ hsEvents' = Append(hsEvents, ClientConnected(c, ClientScreen(c)))
    /\ UNCHANGED <<hsClient, c2s, s2c, c2sEof, s2cEof, sent, hsLog, sOut,
                   cOut, cShutdown, beats, calls, codecVars, ctlVars, detVars, srvVars, layVars, objVars>>

\* handle_client's loop: conn.recv()
ServerPumpRecv(c) ==
    /\ hsServer[c].pc = "pump"
    /\ c2s[c] # <<>> \/ c2sEof[c]
    /\ IF c2s[c] = <<>>
       THEN /\ hsServer' = [hsServer EXCEPT ![c].pc = "cleanup",
                              ![c].reason = Text("Connection closed")]
            /\ UNCHANGED <<c2s, s2c, sent, hsEvents>>
       ELSE /\ c2s' = [c2s EXCEPT ![c] = Tail(@)]
            /\ LET m == Head(c2s[c])
               IN CASE m.type = "Disconnect" ->
                         /\ hsServer' = [hsServer EXCEPT ![c].pc = "cleanup",
                                           ![c].reason = m.reason]
                         /\ UNCHANGED <<s2c, sent, hsEvents>>
                    [] m.type = "Heartbeat" ->
                         /\ \E ok \in WriteOutcomes(c2sEof[c]) :
                              IF ok
                              THEN /\ s2c' = [s2c EXCEPT ![c] =
                                                Append(@, HeartbeatAck(m.timestamp))]
                                   /\ sent' = [sent EXCEPT ![c] =
                                                Append(@, Written("s2c",
                                                     HeartbeatAck(m.timestamp)))]
                              ELSE UNCHANGED <<s2c, sent>>
                         /\ UNCHANGED <<hsServer, hsEvents>>
                    [] OTHER ->
                         /\ hsEvents' = Append(hsEvents, MessageReceived(c, m))
                         /\ UNCHANGED <<hsServer, s2c, sent>>
    /\ UNCHANGED <<hsClient, c2sEof, s2cEof, hsRegistry, hsLog, sOut, cOut,
                   cShutdown, beats, calls, codecVars, ctlVars, detVars, srvVars, layVars, objVars>>

\* handle_client's loop: msg_rx.recv()
ServerPumpSend(c) ==
    /\ hsServer[c].pc = "pump"
    /\ sOut[c] # <<>>
    /\ sOut' = [sOut EXCEPT ![c] = Recv(@).rest]
    /\ \E ok \in WriteOutcomes(c2sEof[c]) :
         IF ok
         THEN /\ s2c' = [s2c EXCEPT ![c] = Append(@, Recv(sOut[c]).message)]
              /\ sent' = [sent EXCEPT ![c] =
                            Append(@, Written("s2c", Recv(sOut[c]).message))]
              /\ UNCHANGED hsServer
         ELSE /\ hsServer' = [hsServer EXCEPT ![c].pc = "cleanup",
                                ![c].reason = Text("Send error: {}")]
              /\ UNCHANGED <<s2c, sent>>
    /\ UNCHANGED <<hsClient, c2s, c2sEof, s2cEof, hsRegistry, hsEvents,
                   hsLog, cOut, cShutdown, beats, calls, codecVars,
                   ctlVars, detVars, srvVars, layVars, objVars>>

\* Server::send_to for a registered client whose handle is marked connected;
\* the message names another edge on every call
ServerSendTo(c) ==
    /\ c \in hsRegistry
    /\ hsServer[c].pc \in {"pump", "cleanup"}
    /\ calls < MaxCalls
    /\ calls' = calls + 1
    /\ LET edge == <<"Left", "Top", "Right", "Bottom">>[(calls % 4) + 1]
       IN sOut' = [sOut EXCEPT ![c] = Append(@, EnterScreen(edge, F32One))]
    /\ UNCHANGED <<hsServer, hsClient, c2s, s2c, c2sEof, s2cEof, sent,
                   hsRegistry, hsEvents, hsLog, cOut, cShutdown, beats,
                   codecVars, ctlVars, detVars, srvVars, layVars, objVars>>

\* handle_client after its loop: mark_disconnected, the registry entry is
\* removed, ClientDisconnected is sent, Connection::close("Session ended"),
\* then the connection is dropped
ServerCleanup(c) ==
    /\ hsServer[c].pc = "cleanup"
    /\ hsRegistry' = hsRegistry \ {c}
    /\ hsEvents' = Append(hsEvents, ClientDisconnected(c, hsServer[c].reason))
    /\ \E ok \in WriteOutcomes(c2sEof[c]), shut \in WriteOutcomes(c2sEof[c]) :
         /\ hsServer' = [hsServer EXCEPT ![c].pc = "done",
                           ![c].conn = IF ok /\ shut THEN "Closed" ELSE "Closing"]
         /\ IF ok
            THEN /\ s2c' = [s2c EXCEPT ![c] = Append(@, Disconnect(Text("Session ended")))]
                 /\ sent' = [sent EXCEPT ![c] =
                               Append(@, Written("s2c", Disconnect(Text("Session ended"))))]
            ELSE UNCHANGED <<s2c, sent>>
    /\ s2cEof' = [s2cEof EXCEPT ![c] = TRUE]
    /\ UNCHANGED <<hsClient, c2s, c2sEof, hsLog, sOut, cOut, cShutdown,
                   beats, calls, codecVars, ctlVars, detVars, srvVars, layVars, objVars>>

\* Client.connection_handle is Some: it is stored before the pump is spawned
\* and cleared by the pump's clean-up
HandleStored(c) == hsClient[c].pc \in {"pump", "cleanup"}

ClientCalls == {"connect", "disconnect", "send"}

\* a call on the Client, from any task, that takes an early return or finds
\* no handle: connect on a state other than Disconnected, disconnect and
\* send while no handle is stored (Client.shutdown_tx is None as well: no
\* connection was made before).  hsClient[c].last keeps the call, what it
\* returned and where the client was
ClientCall(c, call) ==
    /\ calls < MaxCalls
    /\ calls' = calls + 1
    /\ ~HandleStored(c)
    /\ call = "connect" => hsClient[c].state # "Disconnected"
    /\ hsClient' = [hsClient EXCEPT ![c].last =
           [call |-> call, pc |-> hsClient[c].pc, state |-> hsClient[c].state,
            result |-> CASE call = "connect" -> "AlreadyConnected"
                         [] call = "disconnect" ->
                              IF hsClient[c].state = "Disconnected"
                              THEN "NotConnected" ELSE "Ok"
                         [] call = "send" -> "NotConnected"]]
    /\ UNCHANGED <<hsServer, c2s, s2c, c2sEof, s2cEof, sent, hsRegistry,
                   hsEvents, hsLog, sOut, cOut, cShutdown, beats,
                   codecVars, ctlVars, detVars, srvVars, layVars, objVars>>

HandshakeNext ==
    \/ \E c \in Conns, v \in ClientVersions : ClientConnect(c, v)
    \/ \E c \in Conns : ClientHandshake(c)
    \/ \E c \in Conns : ClientHeartbeatTick(c)
    \/ \E c \in Conns : ClientPumpRecv(c)
    \/ \E c \in Conns : ClientPumpSend(c)
    \/ \E c \in Conns : ClientPumpShutdown(c)
    \/ \E c \in Conns : ClientSend(c)
    \/ \E c \in Conns : ClientDisconnect(c)
    \/ \E c \in Conns : ClientCleanup(c)
    \/ \E c \in Conns : ServerAccept(c)
    \/ \E c \in Conns : ServerHandshake(c)
    \/ \E c \in Conns : ServerRegister(c)
    \/ \E c \in Conns : ServerPumpRecv(c)
    \/ \E c \in Conns : ServerPumpSend(c)
    \/ \E c \in Conns : ServerSendTo(c)
    \/ \E c \in Conns : ServerCleanup(c)

\* the connections with calls on the Client made from other tasks
ClientNext ==
    \/ \E c \in Conns, call \in ClientCalls : ClientCall(c, call)
    \/ \E c \in Conns : ClientConnect(c, PROTOCOL_VERSION)
    \/ \E c \in Conns : ClientHandshake(c)
    \/ \E c \in Conns : ClientPumpRecv(c)
    \/ \E c \in Conns : ClientPumpSend(c)
    \/ \E c \in Conns : ClientPumpShutdown(c)
    \/ \E c \in Conns : ClientDisconnect(c)
    \/ \E c \in Conns : ClientCleanup(c)
    \/ \E c \in Conns : ServerAccept(c)
    \/ \E c \in Conns : ServerHandshake(c)
    \/ \E c \in Conns : ServerRegister(c)
    \/ \E c \in Conns : ServerPumpRecv(c)
    \/ \E c \in Conns : ServerCleanup(c)


(***************************************************************************)
(* The Server object: start, stop and the accept task's shutdown arm       *)
(* (src/network/server.rs).  The Started and Stopped events are left out   *)
(* of hsEvents, which holds the events about clients.                      *)
(***************************************************************************)
\* Server::start
ServerStart ==
    /\ Len(server.returns) < MaxServerCalls
    /\ server' =
         IF server.running
         THEN [server EXCEPT !.returns =
                  Append(@, [call |-> "start", result |-> "AlreadyRunning"])]
         ELSE [running |-> TRUE, shutdown_tx |-> TRUE, signal |-> FALSE,
               accept |-> "loop",
               returns |-> Append(server.returns,
                                  [call |-> "start", result |-> "Ok"])]
    /\ UNCHANGED <<codecVars, hsVars, ctlVars, detVars, layVars, objVars>>

\* Server::stop: the running check, the signal through the sender taken out
\* of shutdown_tx, and a Disconnect on the handle of every registered client
ServerStop ==
    /\ Len(server.returns) < MaxServerCalls
    /\ IF ~server.running
       THEN /\ server' = [server EXCEPT !.returns =
                            Append(@, [call |-> "stop", result |-> "NotRunning"])]
            /\ UNCHANGED sOut
       ELSE /\ server' = [server EXCEPT
                            !.shutdown_tx = FALSE,
                            !.signal = @ \/ server.shutdown_tx,
                            !.returns = Append(@, [call |-> "stop", result |-> "Ok"])]
            /\ sOut' = [c \in Conns |->
                          IF c \in hsRegistry
                          THEN Append(sOut[c],
                                      Disconnect(Text("Server shutting down")))
                          ELSE sOut[c]]
    /\ UNCHANGED <<hsClient, hsServer, c2s, s2c, c2sEof, s2cEof, sent, hsRegistry,
                   hsEvents, hsLog, cOut, cShutdown, beats, calls, codecVars,
                   ctlVars, detVars, layVars, objVars>>

\* the accept task: shutdown_rx.recv() returns, the loop ends, running is
\* cleared
AcceptShutdown ==
    /\ server.accept = "loop"
    /\ server.signal
    /\ server' = [server EXCEPT !.running = FALSE, !.signal = FALSE,
                                !.accept = "done"]
    /\ UNCHANGED <<codecVars, hsVars, ctlVars, detVars, layVars, objVars>>

\* the server's life with clients that connect and are served; what a client
\* does after the handshake is up to it
ServerNext ==
    \/ ServerStart
    \/ ServerStop
    \/ AcceptShutdown
    \/ \E c \in Conns : ClientConnect(c, PROTOCOL_VERSION)
    \/ \E c \in Conns : ClientHandshake(c)
    \/ \E c \in Conns : ClientPumpRecv(c)
    \/ \E c \in Conns : ClientCleanup(c)
    \/ \E c \in Conns : ServerAccept(c)
    \/ \E c \in Conns : ServerHandshake(c)
    \/ \E c \in Conns : ServerRegister(c)
    \/ \E c \in Conns : ServerPumpRecv(c)
    \/ \E c \in Conns : ServerPumpSend(c)
    \/ \E c \in Conns : ServerCleanup(c)


(***************************************************************************)
(* The primary's and the followers' event loops (src/main.rs) with the     *)
(* edge detector (src/screen/edge_detector.rs) and the edge positions      *)
(* (src/screen/mod.rs).  Positions along an edge are f32 values.           *)
(***************************************************************************)
Edges == {"Left", "Right", "Top", "Bottom"}

\* screen::normalize_edge_position
normalize_edge_position(edge, x, y, width, height) ==
    IF edge \in {"Left", "Right"} THEN F32Div(y, height) ELSE F32Div(x, width)

\* screen::denormalize_edge_position
denormalize_edge_position(edge, position, width, height) ==
    CASE edge = "Left" -> <<0, F32MulToI32(position, height)>>
      [] edge = "Right" -> <<width - 1, F32MulToI32(position, height)>>
      [] edge = "Top" -> <<F32MulToI32(position, width), 0>>
      [] edge = "Bottom" -> <<F32MulToI32(position, width), height - 1>>

\* an EnterScreen that names the edge the cursor left by
OppositeEdgeSame(edge) == edge

\* screen::opposite_edge
opposite_edge(edge) ==
    CASE edge = "Left" -> "Right"
      [] edge = "Right" -> "Left"
      [] edge = "Top" -> "Bottom"
      [] edge = "Bottom" -> "Top"

\* EdgeDetectorConfig::default, which ScreenConfig::default agrees with
DefaultEdgeConfig ==
    [edge_margin |-> 1, dwell_time_ms |-> 0, require_double_tap |-> FALSE,
     double_tap_window_ms |-> 500, enabled_edges |-> Edges]

\* EdgeState::default for each of the four edges
DefaultEdgeStates == [e \in Edges |-> [touch_start |-> None, last_tap |-> None]]

\* EdgeDetector::new and EdgeDetector::reset
NewDetector == [edge_states |-> DefaultEdgeStates, current_edge |-> None]

NotAtEdge == [kind |-> "NotAtEdge"]

Dwelling(edge, remaining_ms) ==
    [kind |-> "Dwelling", edge |-> edge, remaining_ms |-> remaining_ms]

Transition(edge, position) ==
    [kind |-> "Transition", edge |-> edge, position |-> position]

\* EdgeDetector::calculate_edge_position
calculate_edge_position(edge, x, y, width, height) ==
    F32Clamp01(normalize_edge_position(edge, x, y, width, height))

\* a classification that does not consult enabled_edges
DetectedEdgeAllEnabled(cfg, x, y, width, height) ==
    IF x <= cfg.edge_margin THEN Some("Left")
    ELSE IF x >= width - cfg.edge_margin - 1 THEN Some("Right")
    ELSE IF y <= cfg.edge_margin THEN Some("Top")
    ELSE IF y >= height - cfg.edge_margin - 1 THEN Some("Bottom")
    ELSE None

\* the edge EdgeDetector::check finds the cursor at, as an Option
DetectedEdge(cfg, x, y, width, height) ==
    IF x <= cfg.edge_margin /\ "Left" \in cfg.enabled_edges THEN Some("Left")
    ELSE IF x >= width - cfg.edge_margin - 1 /\ "Right" \in cfg.enabled_edges
    THEN Some("Right")
    ELSE IF y <= cfg.edge_margin /\ "Top" \in cfg.enabled_edges THEN Some("Top")
    ELSE IF y >= height - cfg.edge_margin - 1 /\ "Bottom" \in cfg.enabled_edges
    THEN Some("Bottom")
    ELSE None

Checked(det, result) == [det |-> det, result |-> result]

\* a clock that never leaves the instant of the first touch
ElapsedNone(start, now) == 0

\* start.elapsed().as_millis(), read at time `now`
Elapsed(start, now) == now - start

\* EdgeDetector::check(x, y) at time `now` (ms): the detector afterwards and
\* the result
Check(det, cfg, now, x, y, width, height) ==
    LET detected == DetectedEdge(cfg, x, y, width, height)
        cur == det.current_edge
        pos(e) == calculate_edge_position(e, x, y, width, height)
        st == det.edge_states
    IN CASE cur # None /\ detected = None ->
              LET prev == cur[1]
                  tap == IF cfg.require_double_tap THEN st[prev].touch_start
                                                   ELSE st[prev].last_tap
              IN Checked([edge_states |-> [st EXCEPT ![prev] =
                                             [touch_start |-> None, last_tap |-> tap]],
                          current_edge |-> None],
                         NotAtEdge)
         [] cur = None /\ detected # None ->
              LET edge == detected[1]
              IN IF cfg.require_double_tap /\ st[edge].last_tap # None
                 THEN IF now - st[edge].last_tap[1] > cfg.double_tap_window_ms
                      THEN Checked([edge_states |-> [st EXCEPT ![edge] =
                                       [touch_start |-> Some(now), last_tap |-> None]],
                                    current_edge |-> Some(edge)],
                                   Dwelling(edge, cfg.dwell_time_ms))
                      ELSE Checked([edge_states |-> [st EXCEPT ![edge].last_tap = None],
                                    current_edge |-> Some(edge)],
                                   Transition(edge, pos(edge)))
                 ELSE Checked([edge_states |->
                                 [st EXCEPT ![edge].touch_start = Some(now)],
                               current_edge |-> Some(edge)],
                              IF cfg.dwell_time_ms = 0 /\ ~cfg.require_double_tap
                              THEN Transition(edge, pos(edge))
                              ELSE Dwelling(edge, cfg.dwell_time_ms))
         [] cur # None /\ detected = cur ->
              LET edge == cur[1]
              IN Checked(det,
                   IF st[edge].touch_start = None THEN NotAtEdge
                   ELSE IF Elapsed(st[edge].touch_start[1], now) >= cfg.dwell_time_ms
                   THEN Transition(edge, pos(edge))
                   ELSE Dwelling(edge, cfg.dwell_time_ms
                                       - Elapsed(st[edge].touch_start[1], now)))
         [] cur # None /\ detected # None /\ detected # cur ->
              LET edge == detected[1]
              IN Checked([edge_states |-> [DefaultEdgeStates EXCEPT
                                             ![edge].touch_start = Some(now)],
                          current_edge |-> Some(edge)],
                         IF cfg.dwell_time_ms = 0
                         THEN Transition(edge, pos(edge))
                         ELSE Dwelling(edge, cfg.dwell_time_ms))
         [] cur = None /\ detected = None -> Checked(det, NotAtEdge)


\* ControlState
Local == [tag |-> "Local"]

\* a Remote that names the client after the one chosen
RemoteOffByOne(idx) == [tag |-> "Remote", idx |-> idx + 1]

Remote(idx) == [tag |-> "Remote", idx |-> idx]

Followers == {"B", "C"}

\* InputEvent::MouseMove, MouseButton
MouseMoveEvent(x, y, dx, dy) ==
    [event |-> "MouseMove", x |-> x, y |-> y, dx |-> dx, dy |-> dy]

MouseButtonEvent(button, pressed) ==
    [event |-> "MouseButton", button |-> button, pressed |-> pressed]

\* the capture events of a run: a move onto the right edge, a move in the
\* middle of the screen, a relative-only move to the left, a click
CaptureEvents ==
    {MouseMoveEvent(Some(ScreenWidth - 1), Some(540), 5, 0),
     MouseMoveEvent(Some(960), Some(540), 5, 0),
     MouseMoveEvent(None, None, -5, 0),
     MouseButtonEvent("Left", TRUE)}

\* input_event_to_message, always Some(..)
input_event_to_message(ev) ==
    CASE ev.event = "MouseMove" ->
           [type |-> "MouseMoveRelative", dx |-> ev.dx, dy |-> ev.dy]
      [] ev.event = "MouseButton" ->
           [type |-> "MouseButton", button |-> ev.button, pressed |-> ev.pressed]

\* Server::send_to: the message is accepted when the address is registered,
\* otherwise Err(Closed)
SendToOk(addr) == addr \in hsRegistry

\* i32::clamp
Clamp(v, lo, hi) == IF v < lo THEN lo ELSE IF v > hi THEN hi ELSE v

\* a search that never finds the address
PositionNone(cs, addr) == None

\* clients.iter().position(|(a, _)| *a == addr), zero-based, as an Option
Position(cs, addr) ==
    IF \E i \in 1..Len(cs) : cs[i] = addr
    THEN Some((CHOOSE i \in 1..Len(cs) :
                  cs[i] = addr /\ \A j \in 1..(i - 1) : cs[j] # addr) - 1)
    ELSE None

\* a removal that always takes the first client
RemoveFirst(cs, idx) == Tail(cs)

\* Vec::remove(idx), zero-based
Remove(cs, idx) == SubSeq(cs, 1, idx) \o SubSeq(cs, idx + 2, Len(cs))

\* a return to Local that forgets the capture
ReturnToLocalStillSuppressing == [control_state |-> Local, suppressing |-> TRUE]

\* run_server: control_state = ControlState::Local;
\*             input_capture.set_suppress(false);
ReturnToLocal == [control_state |-> Local, suppressing |-> FALSE]

\* run_client's locals before the loop
FollowerStart ==
    [status |-> "idle", has_control |-> FALSE, entry_edge |-> "Left",
     mouse_x |-> 0, mouse_y |-> 0, edge_detector |-> NewDetector]

CtlInit ==
    /\ control_state = Local
    /\ suppressing = FALSE
    /\ clients = <<>>
    /\ edge_detector = NewDetector
    /\ event_rx = <<>>
    /\ down = [b \in Followers |-> <<>>]
    /\ up = [b \in Followers |-> <<>>]
    /\ follower = [b \in Followers |-> FollowerStart]
    /\ inputs = 0
    /\ sentDown = [b \in Followers |-> <<>>]
    /\ sentUp = [b \in Followers |-> <<>>]
    /\ cursor = <<ScreenWidth \div 2, ScreenHeight \div 2>>
    /\ injected = [b \in Followers |-> <<>>]
    /\ trace = [b \in Followers |-> <<>>]

\* what the event loops leave alone: the codec and the connections'
\* internals
loopFrame == <<codecVars, hsClient, hsServer, c2s, s2c, c2sEof, s2cEof, sent,
               hsEvents, hsLog, sOut, cOut, cShutdown, beats, calls, detVars, srvVars, layVars, objVars>>


\* run_server, the input_rx arm: one capture event.  A move that carries a
\* position reports where the local cursor is; while the capture suppresses,
\* moves do not reach the local system and the cursor stays.
PrimaryInput(ev) ==
    /\ inputs < MaxInputs
    /\ inputs' = inputs + 1
    /\ IF control_state = Local
       THEN IF ev.event = "MouseMove" /\ ev.x # None /\ ev.y # None
            THEN LET r == Check(edge_detector, DefaultEdgeConfig, 0, ev.x[1], ev.y[1],
                                ScreenWidth, ScreenHeight)
                 IN IF /\ r.result.kind = "Transition"
                       /\ clients # <<>>
                       /\ r.result.edge = "Right"
                    THEN LET addr == clients[1]
                             m == EnterScreen(opposite_edge(r.result.edge),
                                              r.result.position)
                         IN /\ IF SendToOk(addr)
                               THEN /\ down' = [down EXCEPT ![addr] = Append(@, m)]
                                    /\ sentDown' = [sentDown EXCEPT ![addr] = Append(@, m)]
                               ELSE UNCHANGED <<down, sentDown>>
                            /\ control_state' = Remote(0)
                            /\ suppressing' = TRUE
                            /\ edge_detector' = NewDetector
                    ELSE /\ edge_detector' = r.det
                         /\ UNCHANGED <<control_state, suppressing, down, sentDown>>
            ELSE UNCHANGED <<control_state, suppressing, edge_detector, down, sentDown>>
       ELSE IF control_state.idx < Len(clients)
            THEN LET addr == clients[control_state.idx + 1]
                     m == input_event_to_message(ev)
                 IN /\ IF SendToOk(addr)
                       THEN /\ down' = [down EXCEPT ![addr] = Append(@, m)]
                            /\ sentDown' = [sentDown EXCEPT ![addr] = Append(@, m)]
                       ELSE UNCHANGED <<down, sentDown>>
                    /\ UNCHANGED <<control_state, suppressing, edge_detector>>
            ELSE /\ control_state' = ReturnToLocal.control_state
                 /\ suppressing' = ReturnToLocal.suppressing
                 /\ UNCHANGED <<edge_detector, down, sentDown>>
    /\ cursor' = IF ev.event = "MouseMove" /\ ev.x # None /\ ev.y # None /\ ~suppressing
                 THEN <<ev.x[1], ev.y[1]>>
                 ELSE cursor
    /\ UNCHANGED <<clients, event_rx, up, follower, sentUp, injected, trace,
                   hsRegistry, loopFrame>>

\* run_server, the event_rx arm: one server event
PrimaryEvent ==
    /\ event_rx # <<>>
    /\ event_rx' = Tail(event_rx)
    /\ LET ev == Head(event_rx)
       IN CASE ev.event = "ClientConnected" ->
                 /\ clients' = Append(clients, ev.addr)
                 /\ UNCHANGED <<control_state, suppressing>>
            [] ev.event = "ClientDisconnected" ->
                 LET at == Position(clients, ev.addr)
                 IN IF at # None
                    THEN /\ clients' = Remove(clients, at[1])
                         /\ IF control_state = Remote(at[1])
                            THEN /\ control_state' = ReturnToLocal.control_state
                                 /\ suppressing' = ReturnToLocal.suppressing
                            ELSE UNCHANGED <<control_state, suppressing>>
                    ELSE UNCHANGED <<clients, control_state, suppressing>>
            [] ev.event = "MessageReceived" ->
                 /\ IF ev.message.type = "LeaveScreen"
                    THEN /\ control_state' = ReturnToLocal.control_state
                         /\ suppressing' = ReturnToLocal.suppressing
                    ELSE UNCHANGED <<control_state, suppressing>>
                 /\ UNCHANGED clients
    /\ UNCHANGED <<edge_detector, down, up, follower, inputs, sentDown, sentUp,
                   cursor, injected, trace, hsRegistry, loopFrame>>

\* a follower starts: Client::connect succeeds, and on the server
\* handle_client registers it and sends ClientConnected
FollowerConnects(b) ==
    /\ follower[b].status = "idle"
    /\ follower' = [follower EXCEPT ![b].status = "connected"]
    /\ hsRegistry' = hsRegistry \cup {b}
    /\ event_rx' = Append(event_rx, ClientConnected(b, ClientScreen(b)))
    /\ UNCHANGED <<control_state, suppressing, clients, edge_detector, down, up,
                   inputs, sentDown, sentUp, cursor, injected, trace, loopFrame>>

\* a call on the follower's InputInjector
Inject(call, a, b) == [call |-> call, a |-> a, b |-> b]

\* a guard that lets every message through
HasControlAlways(f) == TRUE

\* the match guard "if has_control" on the input arms
HasControl(f) == f.has_control

\* a comparison that takes every edge for the return edge
IsReturnEdgeAny(edge, entry_edge) == TRUE

\* run_client: if edge == entry_edge
IsReturnEdge(edge, entry_edge) == edge = entry_edge

\* run_client, the event_rx arm: one ClientEvent::MessageReceived
FollowerEvent(b) ==
    /\ follower[b].status = "connected"
    /\ down[b] # <<>>
    /\ down' = [down EXCEPT ![b] = Tail(@)]
    /\ LET m == Head(down[b])
           f == follower[b]
           inject(c) == injected' = [injected EXCEPT ![b] = Append(@, c)]
       IN CASE m.type = "EnterScreen" ->
                 LET xy == denormalize_edge_position(m.edge, m.position,
                                                     ScreenWidth, ScreenHeight)
                 IN /\ follower' = [follower EXCEPT ![b] =
                          [f EXCEPT !.has_control = TRUE, !.entry_edge = m.edge,
                                    !.mouse_x = xy[1], !.mouse_y = xy[2],
                                    !.edge_detector = NewDetector]]
                    /\ inject(Inject("mouse_move_absolute", xy[1], xy[2]))
                    /\ UNCHANGED <<up, sentUp, trace>>
            [] m.type = "MouseMoveRelative" /\ HasControl(f) ->
                 LET x == Clamp(f.mouse_x + m.dx, 0, ScreenWidth - 1)
                     y == Clamp(f.mouse_y + m.dy, 0, ScreenHeight - 1)
                     r == Check(f.edge_detector, DefaultEdgeConfig, 0, x, y,
                                ScreenWidth, ScreenHeight)
                 IN /\ inject(Inject("mouse_move_relative", m.dx, m.dy))
                    /\ UNCHANGED trace
                    /\ IF /\ r.result.kind = "Transition"
                          /\ IsReturnEdge(r.result.edge, f.entry_edge)
                       THEN LET leave == LeaveScreen(r.result.edge, r.result.position)
                            IN /\ follower' = [follower EXCEPT ![b] =
                                     [f EXCEPT !.has_control = FALSE, !.mouse_x = x,
                                               !.mouse_y = y,
                                               !.edge_detector = NewDetector]]
                               /\ up' = [up EXCEPT ![b] = Append(@, leave)]
                               /\ sentUp' = [sentUp EXCEPT ![b] = Append(@, leave)]
                       ELSE /\ follower' = [follower EXCEPT ![b] =
                                  [f EXCEPT !.mouse_x = x, !.mouse_y = y,
                                            !.edge_detector = r.det]]
                            /\ UNCHANGED <<up, sentUp>>
            [] m.type = "MouseMoveAbsolute" /\ HasControl(f) ->
                 /\ follower' = [follower EXCEPT ![b].mouse_x = m.x,
                                                 ![b].mouse_y = m.y]
                 /\ inject(Inject("mouse_move_absolute", m.x, m.y))
                 /\ UNCHANGED <<up, sentUp, trace>>
            [] m.type = "MouseButton" /\ HasControl(f) ->
                 /\ inject(Inject("mouse_button", m.button, m.pressed))
                 /\ UNCHANGED <<follower, up, sentUp, trace>>
            [] m.type = "MouseScroll" /\ HasControl(f) ->
                 /\ inject(Inject("mouse_scroll", m.dx, m.dy))
                 /\ UNCHANGED <<follower, up, sentUp, trace>>
            [] m.type = "KeyDown" /\ HasControl(f) ->
                 /\ inject(Inject("key_down", m.keycode, m.modifiers))
                 /\ UNCHANGED <<follower, up, sentUp, trace>>
            [] m.type = "KeyUp" /\ HasControl(f) ->
                 /\ inject(Inject("key_up", m.keycode, m.modifiers))
                 /\ UNCHANGED <<follower, up, sentUp, trace>>
            [] OTHER ->
                 /\ trace' = [trace EXCEPT ![b] =
                                 Append(@, [has_control |-> f.has_control,
                                            message |-> m])]
                 /\ UNCHANGED <<follower, up, sentUp, injected>>
    /\ UNCHANGED <<control_state, suppressing, clients, edge_detector, event_rx,
                   inputs, sentDown, cursor, hsRegistry, loopFrame>>

\* run_client leaves its loop (Ctrl+C) and calls Client::disconnect
FollowerLeaves(b) ==
    /\ follower[b].status = "connected"
    /\ follower' = [follower EXCEPT ![b].status = "gone"]
    /\ UNCHANGED <<control_state, suppressing, clients, edge_detector, event_rx,
                   down, up, inputs, sentDown, sentUp, cursor, injected, trace,
                   hsRegistry, loopFrame>>

\* handle_client's loop publishes the next frame received from b
ServerPumpForward(b) ==
    /\ b \in hsRegistry
    /\ up[b] # <<>>
    /\ up' = [up EXCEPT ![b] = Tail(@)]
    /\ event_rx' = Append(event_rx, MessageReceived(b, Head(up[b])))
    /\ UNCHANGED <<control_state, suppressing, clients, edge_detector, down,
                   follower, inputs, sentDown, sentUp, cursor, injected, trace,
                   hsRegistry, loopFrame>>

\* handle_client leaves its loop once b is gone and everything b sent has
\* been read: the handle is marked, the registry entry removed,
\* ClientDisconnected sent
ServerPumpExit(b) ==
    /\ b \in hsRegistry
    /\ follower[b].status = "gone"
    /\ up[b] = <<>>
    /\ hsRegistry' = hsRegistry \ {b}
    /\ down' = [down EXCEPT ![b] = <<>>]
    /\ event_rx' = Append(event_rx,
                          ClientDisconnected(b, Text("Client disconnecting")))
    /\ UNCHANGED <<control_state, suppressing, clients, edge_detector, up,
                   follower, inputs, sentDown, sentUp, cursor, injected, trace,
                   loopFrame>>

Next ==
    \/ \E ev \in CaptureEvents : PrimaryInput(ev)
    \/ PrimaryEvent
    \/ \E b \in Followers : FollowerConnects(b)
    \/ \E b \in Followers : FollowerEvent(b)
    \/ \E b \in Followers : FollowerLeaves(b)
    \/ \E b \in Followers : ServerPumpForward(b)
    \/ \E b \in Followers : ServerPumpExit(b)

(***************************************************************************)
(* A client need not be run_client: any program built on network::Client   *)
(* completes the same handshake and can then send any message at any      *)
(* time.  handle_client publishes whatever arrives as MessageReceived.     *)
(***************************************************************************)
\* 270 / 1080 as an f32: 0.25
Quarter == F32Div(270, ScreenHeight)

\* what such a client sends unasked
ForeignMsgs == {LeaveScreen("Left", Quarter)}

\* Client::send(m) called by the program at b, outside run_client's rules
ForeignSend(b, m) ==
    /\ follower[b].status = "connected"
    /\ inputs < MaxInputs
    /\ inputs' = inputs + 1
    /\ up' = [up EXCEPT ![b] = Append(@, m)]
    /\ sentUp' = [sentUp EXCEPT ![b] = Append(@, m)]
    /\ UNCHANGED <<control_state, suppressing, clients, edge_detector, event_rx,
                   down, follower, sentDown, cursor, injected, trace, hsRegistry,
                   loopFrame>>

OpenNext ==
    \/ Next
    \/ \E b \in Followers, m \in ForeignMsgs : ForeignSend(b, m)

(***************************************************************************)
(* A server need not be run_server either: run_client handles whatever     *)
(* message its connection delivers, in the order it was sent.              *)
(***************************************************************************)
\* what such a server sends: an entry on the left edge, moves across the
\* whole screen to the left and to the right, and one message of each other
\* input kind
ServerMsgs ==
    {EnterScreen("Left", Quarter),
     [type |-> "MouseMoveRelative", dx |-> -2000, dy |-> 0],
     [type |-> "MouseMoveRelative", dx |-> 2000, dy |-> 0],
     [type |-> "MouseMoveAbsolute", x |-> 960, y |-> 540],
     [type |-> "MouseButton", button |-> "Left", pressed |-> TRUE],
     [type |-> "MouseScroll", dx |-> 0, dy |-> 1],
     [type |-> "KeyDown", keycode |-> 4, character |-> <<97>>,
      modifiers |-> NoModifiers],
     [type |-> "KeyUp", keycode |-> 4, modifiers |-> NoModifiers]}

\* how many messages such a server sends in a run
MaxSends == 3

\* Server::send_to(b, m) called by the program on the other side
ServerSend(b, m) ==
    /\ b \in hsRegistry
    /\ inputs < MaxSends
    /\ inputs' = inputs + 1
    /\ down' = [down EXCEPT ![b] = Append(@, m)]
    /\ sentDown' = [sentDown EXCEPT ![b] = Append(@, m)]
    /\ UNCHANGED <<control_state, suppressing, clients, edge_detector, event_rx,
                   up, follower, sentUp, cursor, injected, trace, hsRegistry,
                   loopFrame>>

\* 1080 / 1080 as an f32: 1.0
One == F32Div(ScreenHeight, ScreenHeight)

\* entries at either end of an edge and a quarter along, moves within the screen,
\* across it and of one pixel, and absolute positions on and off the screen
CursorMsgs ==
    {EnterScreen(e, p) : e \in {"Left", "Top"},
                         p \in {F32Div(0, ScreenHeight), Quarter, One}}
    \cup {[type |-> "MouseMoveRelative", dx |-> d[1], dy |-> d[2]] :
             d \in {<<2000, 0>>, <<0, -2000>>, <<7, 7>>, <<1, 0>>}}
    \cup {[type |-> "MouseMoveAbsolute", x |-> q[1], y |-> q[2]] :
             q \in {<<960, 540>>, <<ScreenWidth, 540>>, <<-1, 0>>}}

CursorNext ==
    \/ \E b \in Followers : FollowerConnects(b)
    \/ \E b \in Followers, m \in CursorMsgs : ServerSend(b, m)
    \/ \E b \in Followers : FollowerEvent(b)

FollowerNext ==
    \/ \E b \in Followers : FollowerConnects(b)
    \/ \E b \in Followers, m \in ServerMsgs : ServerSend(b, m)
    \/ \E b \in Followers : FollowerEvent(b)

(***************************************************************************)
(* One EdgeDetector on a 1920x1080 screen, checked at a few positions      *)
(* while time passes.  Times are whole milliseconds, as as_millis() gives. *)
(***************************************************************************)
\* the configurations a run starts from: with and without a dwell time,
\* with and without the double tap
DetectorConfigs ==
    {[DefaultEdgeConfig EXCEPT !.dwell_time_ms = d, !.require_double_tap = t,
                               !.double_tap_window_ms = 1] :
        d \in {0, 2}, t \in BOOLEAN}

\* the positions check is called with: on the left edge, inside the screen,
\* on the top edge
CheckPoints == {<<0, 540>>, <<960, 540>>, <<960, 0>>}

\* no detector of its own is running
DetIdle ==
    /\ config = DefaultEdgeConfig
    /\ clock = 0
    /\ results = <<>>

DetectorInit ==
    /\ config \in DetectorConfigs
    /\ clock = 0
    /\ results = <<>>

\* one EdgeDetector::check(x, y), made dt ms after the call before it
DetectorCheck(p, dt) ==
    /\ Len(results) < MaxChecks
    /\ clock' = clock + dt
    /\ LET r == Check(edge_detector, config, clock + dt, p[1], p[2],
                      ScreenWidth, ScreenHeight)
       IN /\ edge_detector' = r.det
          /\ results' = Append(results,
                               [x |-> p[1], y |-> p[2], now |-> clock + dt,
                                before |-> edge_detector, result |-> r.result])
    /\ UNCHANGED <<config, control_state, suppressing, clients, event_rx, down, up,
                   follower, inputs, sentDown, sentUp, cursor, injected, trace,
                   codecVars, hsVars, srvVars, layVars, objVars>>

DetectorNext == \E p \in CheckPoints, dt \in 0..MaxTick : DetectorCheck(p, dt)

\* detectors with a margin of 1 or 2, with all edges, without Left, or with
\* Top and Bottom only, and with no dwell time or one of 2 ms
ClassifyConfigs ==
    {[DefaultEdgeConfig EXCEPT !.edge_margin = m, !.enabled_edges = en,
                               !.dwell_time_ms = d] :
        m \in {1, 2}, en \in {Edges, Edges \ {"Left"}, {"Top", "Bottom"}},
        d \in {0, 2}}

\* positions on and next to every edge, in corners, and inside the screen
ClassifyPoints ==
    {<<0, 540>>, <<2, 540>>, <<ScreenWidth - 3, 540>>, <<ScreenWidth - 1, 0>>,
     <<0, 0>>, <<960, 2>>, <<960, ScreenHeight - 1>>,
     <<ScreenWidth - 1, ScreenHeight - 1>>, <<960, 540>>}

\* check is called every millisecond
ClassifyNext == \E p \in ClassifyPoints : DetectorCheck(p, 1)


(***************************************************************************)
(* The screen layout (src/screen/layout.rs).  A HashMap is a function      *)
(* that gives None for a key it does not hold.                             *)
(***************************************************************************)
LayoutHosts == {"A", "B"}

MaxLinear == 2

MaxLayoutCalls == 4

\* ScreenNode::new
ScreenNode(host_id) == [host_id |-> host_id, neighbors |-> [e \in Edges |-> None]]

\* ScreenLayout::new
ScreenLayoutNew == [screens |-> [h \in LayoutHosts |-> None], local_host_id |-> None]

\* ScreenLayout::set_local_host
set_local_host(l, host_id) ==
    [screens |-> [l.screens EXCEPT ![host_id] = ScreenNode(host_id)],
     local_host_id |-> host_id]

\* ScreenLayout::add_host
add_host(l, host_id) == [l EXCEPT !.screens[host_id] = ScreenNode(host_id)]

\* a remove_host that leaves the other nodes' neighbor maps alone
RemoveNodeOnly(l, host_id) == [l EXCEPT !.screens[host_id] = None]

\* ScreenLayout::remove_host
remove_host(l, host_id) ==
    LET retain(node) ==
            [node EXCEPT !.neighbors =
                [e \in Edges |-> IF @[e] = host_id THEN None ELSE @[e]]]
    IN [l EXCEPT !.screens =
            [h \in LayoutHosts |->
                IF h = host_id \/ l.screens[h] = None THEN None
                ELSE retain(l.screens[h])]]

\* a connect_hosts that sets host_a's side only
ConnectOneWay(l, host_a, edge_a, host_b, edge_b) ==
    IF l.screens[host_a] = None \/ l.screens[host_b] = None
    THEN [layout |-> l, result |-> FALSE]
    ELSE [layout |-> [l EXCEPT !.screens[host_a].neighbors[edge_a] = host_b],
          result |-> TRUE]

\* ScreenLayout::connect_hosts: host_a's entry is written first, host_b's
\* second
connect_hosts(l, host_a, edge_a, host_b, edge_b) ==
    IF l.screens[host_a] = None \/ l.screens[host_b] = None
    THEN [layout |-> l, result |-> FALSE]
    ELSE LET first == [l EXCEPT !.screens[host_a].neighbors[edge_a] = host_b]
         IN [layout |-> [first EXCEPT !.screens[host_b].neighbors[edge_b] = host_a],
             result |-> TRUE]

\* ScreenLayout::disconnect_hosts
disconnect_hosts(l, host_a, host_b) ==
    LET retain(node, id) ==
            IF node = None THEN None
            ELSE [node EXCEPT !.neighbors =
                     [e \in Edges |-> IF @[e] = id THEN None ELSE @[e]]]
        first == [l EXCEPT !.screens[host_a] = retain(@, host_b)]
    IN [first EXCEPT !.screens[host_b] = retain(@, host_a)]

\* ScreenLayout::get_neighbor: the neighbor's node, or None
get_neighbor(l, host_id, edge) ==
    IF l.screens[host_id] = None THEN None
    ELSE IF None = l.screens[host_id].neighbors[edge] THEN None
    ELSE l.screens[l.screens[host_id].neighbors[edge]]

\* ScreenLayout::create_linear_layout
create_linear_layout(l, hosts) ==
    LET RECURSIVE AddAll(_, _)
        AddAll(cur, i) ==
            IF i > Len(hosts) THEN cur ELSE AddAll(add_host(cur, hosts[i]), i + 1)
        RECURSIVE ConnectInSequence(_, _)
        ConnectInSequence(cur, i) ==
            IF i >= Len(hosts) THEN cur
            ELSE ConnectInSequence(
                     connect_hosts(cur, hosts[i], "Right", hosts[i + 1], "Left").layout,
                     i + 1)
        cleared == [l EXCEPT !.screens = [h \in LayoutHosts |-> None]]
    IN ConnectInSequence(AddAll(cleared, 1), 1)

\* LayoutBuilder::local_host
BuilderLocalHost(h) ==
    /\ layCalls.n < MaxLayoutCalls
    /\ layout' = set_local_host(layout, h)
    /\ layCalls' = [layCalls EXCEPT !.n = @ + 1, !.last = [call |-> "local_host", host |-> h]]
    /\ UNCHANGED <<codecVars, hsVars, ctlVars, detVars, srvVars, objVars>>

\* LayoutBuilder::add_host
BuilderAddHost(h) ==
    /\ layCalls.n < MaxLayoutCalls
    /\ layout' = add_host(layout, h)
    /\ layCalls' = [layCalls EXCEPT !.n = @ + 1, !.last = [call |-> "add_host", host |-> h]]
    /\ UNCHANGED <<codecVars, hsVars, ctlVars, detVars, srvVars, objVars>>

\* LayoutBuilder::connect, which discards what connect_hosts returns
BuilderConnect(host_a, edge_a, host_b, edge_b) ==
    /\ layCalls.n < MaxLayoutCalls
    /\ layout' = connect_hosts(layout, host_a, edge_a, host_b, edge_b).layout
    /\ layCalls' = [layCalls EXCEPT !.n = @ + 1, !.last =
                       [call |-> "connect", host_a |-> host_a, edge_a |-> edge_a,
                        host_b |-> host_b, edge_b |-> edge_b]]
    /\ UNCHANGED <<codecVars, hsVars, ctlVars, detVars, srvVars, objVars>>

Helpers == {"left_of", "right_of", "above", "below"}

\* LayoutBuilder::left_of, right_of, above, below
BuilderHelper(helper, host_a, host_b) ==
    LET edge_a == CASE helper = "left_of" -> "Left"
                    [] helper = "right_of" -> "Right"
                    [] helper = "above" -> "Top"
                    [] helper = "below" -> "Bottom"
        edge_b == CASE helper = "left_of" -> "Right"
                    [] helper = "right_of" -> "Left"
                    [] helper = "above" -> "Bottom"
                    [] helper = "below" -> "Top"
    IN /\ layCalls.n < MaxLayoutCalls
       /\ layout' = connect_hosts(layout, host_a, edge_a, host_b, edge_b).layout
       /\ layCalls' = [layCalls EXCEPT !.n = @ + 1, !.last =
                          [call |-> helper, host_a |-> host_a, host_b |-> host_b,
                           present |-> {h \in {host_a, host_b} :
                                           layout.screens[h] # None}]]
       /\ UNCHANGED <<codecVars, hsVars, ctlVars, detVars, srvVars, objVars>>

\* ScreenLayout::remove_host, called on a built layout
LayoutRemoveHost(h) ==
    /\ layCalls.n < MaxLayoutCalls
    /\ layout' = remove_host(layout, h)
    /\ layCalls' = [builder_only |-> FALSE, n |-> layCalls.n + 1,
                    last |-> [call |-> "remove_host", host |-> h,
                              referenced_by |->
                                  {o \in LayoutHosts \ {h} :
                                      /\ layout.screens[o] # None
                                      /\ \E e \in Edges :
                                             layout.screens[o].neighbors[e] = h}]]
    /\ UNCHANGED <<codecVars, hsVars, ctlVars, detVars, srvVars, objVars>>

\* ScreenLayout::disconnect_hosts, called on a built layout
LayoutDisconnectHosts(host_a, host_b) ==
    /\ layCalls.n < MaxLayoutCalls
    /\ layout' = disconnect_hosts(layout, host_a, host_b)
    /\ layCalls' = [builder_only |-> FALSE, n |-> layCalls.n + 1,
                    last |-> [call |-> "disconnect_hosts", host_a |-> host_a,
                              host_b |-> host_b]]
    /\ UNCHANGED <<codecVars, hsVars, ctlVars, detVars, srvVars, objVars>>

\* ScreenLayout::create_linear_layout, called on a built layout
LayoutCreateLinear(hosts) ==
    /\ layCalls.n < MaxLayoutCalls
    /\ layout' = create_linear_layout(layout, hosts)
    /\ layCalls' = [builder_only |-> FALSE, n |-> layCalls.n + 1,
                    last |-> [call |-> "create_linear_layout", hosts |-> hosts]]
    /\ UNCHANGED <<codecVars, hsVars, ctlVars, detVars, srvVars, objVars>>

\* every call on a LayoutBuilder and, after build, on the ScreenLayout;
\* ScreenLayout's set_local_host, add_host and connect_hosts are the calls
\* the builder's local_host, add_host and connect forward to
LayoutNext ==
    \/ \E h \in LayoutHosts : BuilderLocalHost(h)
    \/ \E h \in LayoutHosts : BuilderAddHost(h)
    \/ \E a \in LayoutHosts, b \in LayoutHosts, ea \in Edges, eb \in Edges :
           BuilderConnect(a, ea, b, eb)
    \/ \E helper \in Helpers, a \in LayoutHosts, b \in LayoutHosts :
           BuilderHelper(helper, a, b)
    \/ \E h \in LayoutHosts : LayoutRemoveHost(h)
    \/ \E a \in LayoutHosts, b \in LayoutHosts : LayoutDisconnectHosts(a, b)
    \/ \E n \in 0..MaxLinear : \E hosts \in [1..n -> LayoutHosts] :
           LayoutCreateLinear(hosts)


(***************************************************************************)
(* A ConnectionHandle and its clones (src/network/connection.rs).  An      *)
(* Arc<AtomicBool> is a cell; a clone of the handle holds the number of    *)
(* the cell its `connected` field points to.                               *)
(***************************************************************************)
MaxClones == 3

MaxHandleSends == 3

\* the capacity of the handle's queue, 256 in the code
QueueCap == 2

\* ConnectionHandle::new(sender): one handle, its flag set, the queue empty
\* and its receiver alive
ConnectionHandleNew ==
    [clones |-> <<1>>, cells |-> <<TRUE>>, queue |-> <<>>, receiver |-> TRUE,
     marked |-> {}, sends |-> <<>>]

\* a clone that copies the value of the flag into a cell of its own
CloneWithOwnFlag(h, i) ==
    [h EXCEPT !.cells = Append(@, h.cells[h.clones[i]]),
              !.clones = Append(@, Len(h.cells) + 1)]

\* #[derive(Clone)] on ConnectionHandle: Arc::clone of `connected`
CloneHandle(h, i) == [h EXCEPT !.clones = Append(@, h.clones[i])]

\* ConnectionHandle::is_connected
is_connected(h, i) == h.cells[h.clones[i]]

\* ConnectionHandle::mark_disconnected
mark_disconnected(h, i) == [h EXCEPT !.cells[h.clones[i]] = FALSE]

\* ConnectionHandle::send on clone i: what it returns and the handle after
HandleSendResult(h, i, message) ==
    IF ~is_connected(h, i) THEN [result |-> "Closed", handle |-> h]
    ELSE IF ~h.receiver THEN [result |-> "SendChannelClosed", handle |-> h]
    ELSE [result |-> "Ok", handle |-> [h EXCEPT !.queue = Append(@, message)]]

\* handle.clone()
HandleClone(i) ==
    /\ i <= Len(handle.clones)
    /\ Len(handle.clones) < MaxClones
    /\ handle' = CloneHandle(handle, i)
    /\ UNCHANGED <<codecVars, hsVars, ctlVars, detVars, srvVars, layVars,
                   locks, dial>>

\* mark_disconnected on clone i
HandleMarkDisconnected(i) ==
    /\ i <= Len(handle.clones)
    /\ handle' = [mark_disconnected(handle, i) EXCEPT !.marked = @ \cup {i}]
    /\ UNCHANGED <<codecVars, hsVars, ctlVars, detVars, srvVars, layVars,
                   locks, dial>>

\* send on clone i, to its return: while the flag is set, the receiver is
\* alive and the queue is full, sender.send(..).await has not returned
HandleSend(i) ==
    /\ i <= Len(handle.clones)
    /\ Len(handle.sends) < MaxHandleSends
    /\ ~(is_connected(handle, i) /\ handle.receiver /\ Len(handle.queue) >= QueueCap)
    /\ LET r == HandleSendResult(handle, i, Len(handle.sends) + 1)
       IN handle' = [r.handle EXCEPT !.sends =
                        Append(@, [clone |-> i, marked |-> handle.marked,
                                   receiver |-> handle.receiver,
                                   result |-> r.result])]
    /\ UNCHANGED <<codecVars, hsVars, ctlVars, detVars, srvVars, layVars,
                   locks, dial>>

\* the pump's msg_rx.recv()
HandleReceive ==
    /\ handle.receiver
    /\ handle.queue # <<>>
    /\ handle' = [handle EXCEPT !.queue = Recv(@).rest]
    /\ UNCHANGED <<codecVars, hsVars, ctlVars, detVars, srvVars, layVars,
                   locks, dial>>

\* the task that owns msg_rx ends, with or without mark_disconnected called
HandleReceiverDropped ==
    /\ handle.receiver
    /\ handle' = [handle EXCEPT !.receiver = FALSE, !.queue = <<>>]
    /\ UNCHANGED <<codecVars, hsVars, ctlVars, detVars, srvVars, layVars,
                   locks, dial>>

HandleNext ==
    \/ \E i \in 1..MaxClones : HandleClone(i)
    \/ \E i \in 1..MaxClones : HandleMarkDisconnected(i)
    \/ \E i \in 1..MaxClones : HandleSend(i)
    \/ HandleReceive
    \/ HandleReceiverDropped


(***************************************************************************)
(* Server::send_to against one handle_client task                          *)
(* (src/network/server.rs): the registry RwLock, the client's outbound     *)
(* queue and the server event channel, both bounded.  The controller is    *)
(* run_server's loop (src/main.rs), the one task that calls send_to and    *)
(* receives the server events.                                             *)
(***************************************************************************)
MaxSendTos == 3

MaxClientMsgs == 3

\* handle_client has registered the client and is in its loop; the
\* controller is in its select!
LocksInit ==
    [ctl |-> "select", pump |-> "loop", readers |-> 0, registered |-> TRUE,
     connected |-> TRUE, queue |-> 0, events |-> <<>>, receiver |-> TRUE,
     returns |-> <<>>, read |-> 0]

\* Server::send_to up to handle.send's check of the flag: clients.read()
\* is granted while no writer holds or awaits the lock; an unknown address
\* and a cleared flag return at once, and the guard is dropped on return
SendToLock ==
    /\ locks.ctl = "select"
    /\ Len(locks.returns) < MaxSendTos
    /\ locks.pump # "awaitWrite"
    /\ locks' = IF ~locks.registered \/ ~locks.connected
                THEN [locks EXCEPT !.returns = Append(@, "Closed")]
                ELSE [locks EXCEPT !.ctl = "sending", !.readers = 1]
    /\ UNCHANGED <<codecVars, hsVars, ctlVars, detVars, srvVars, layVars,
                   handle, dial>>

\* Server::send_to, sender.send(message).await under the read guard: it
\* returns when the queue has room or its receiver is gone
SendToEnqueue ==
    /\ locks.ctl = "sending"
    /\ ~locks.receiver \/ locks.queue < QueueCap
    /\ locks' = IF ~locks.receiver
                THEN [locks EXCEPT !.ctl = "select", !.readers = 0,
                                   !.returns = Append(@, "SendChannelClosed")]
                ELSE [locks EXCEPT !.ctl = "select", !.readers = 0,
                                   !.queue = @ + 1,
                                   !.returns = Append(@, "Ok")]
    /\ UNCHANGED <<codecVars, hsVars, ctlVars, detVars, srvVars, layVars,
                   handle, dial>>

\* run_server: event_rx.recv()
ControllerRecvEvent ==
    /\ locks.ctl = "select"
    /\ locks.events # <<>>
    /\ locks' = [locks EXCEPT !.events = Tail(@)]
    /\ UNCHANGED <<codecVars, hsVars, ctlVars, detVars, srvVars, layVars,
                   handle, dial>>

\* handle_client's loop: msg_rx.recv() and conn.send; a failed write leaves
\* the loop and mark_disconnected is called
LockPumpWrite(ok) ==
    /\ locks.pump = "loop"
    /\ locks.queue > 0
    /\ locks' = IF ok THEN [locks EXCEPT !.queue = @ - 1]
                ELSE [locks EXCEPT !.queue = @ - 1, !.pump = "awaitWrite",
                                   !.connected = FALSE]
    /\ UNCHANGED <<codecVars, hsVars, ctlVars, detVars, srvVars, layVars,
                   handle, dial>>

\* handle_client's loop: conn.recv() returned a message to forward
LockPumpRead ==
    /\ locks.pump = "loop"
    /\ locks.read < MaxClientMsgs
    /\ locks' = [locks EXCEPT !.pump = "forward", !.read = @ + 1]
    /\ UNCHANGED <<codecVars, hsVars, ctlVars, detVars, srvVars, layVars,
                   handle, dial>>

\* handle_client's loop: event_tx.send(MessageReceived).await returns when
\* the event channel has room
LockPumpForward ==
    /\ locks.pump = "forward"
    /\ Len(locks.events) < QueueCap
    /\ locks' = [locks EXCEPT !.pump = "loop",
                              !.events = Append(@, "MessageReceived")]
    /\ UNCHANGED <<codecVars, hsVars, ctlVars, detVars, srvVars, layVars,
                   handle, dial>>

\* handle_client's loop ends (Disconnect, end of stream or an error) and
\* mark_disconnected is called
LockPumpLeave ==
    /\ locks.pump = "loop"
    /\ locks' = [locks EXCEPT !.pump = "awaitWrite", !.connected = FALSE]
    /\ UNCHANGED <<codecVars, hsVars, ctlVars, detVars, srvVars, layVars,
                   handle, dial>>

\* handle_client's clean-up: clients.write() is granted when no reader holds
\* the lock; the client is removed and the guard dropped
LockPumpRemove ==
    /\ locks.pump = "awaitWrite"
    /\ locks.readers = 0
    /\ locks' = [locks EXCEPT !.pump = "notify", !.registered = FALSE]
    /\ UNCHANGED <<codecVars, hsVars, ctlVars, detVars, srvVars, layVars,
                   handle, dial>>

\* handle_client's clean-up: event_tx.send(ClientDisconnected).await, then
\* close and the end of the task, which drops msg_rx
LockPumpNotify ==
    /\ locks.pump = "notify"
    /\ Len(locks.events) < QueueCap
    /\ locks' = [locks EXCEPT !.pump = "ended", !.receiver = FALSE,
                              !.events = Append(@, "ClientDisconnected")]
    /\ UNCHANGED <<codecVars, hsVars, ctlVars, detVars, srvVars, layVars,
                   handle, dial>>

LockNext ==
    \/ SendToLock
    \/ SendToEnqueue
    \/ ControllerRecvEvent
    \/ \E ok \in BOOLEAN : LockPumpWrite(ok)
    \/ LockPumpRead
    \/ LockPumpForward
    \/ LockPumpLeave
    \/ LockPumpRemove
    \/ LockPumpNotify

(***************************************************************************)
(* Client::connect called from several tasks on one Client                 *)
(* (src/network/client.rs).  Each await of a lock is a step of its own:    *)
(* the read guard of the state check is dropped before the write guard     *)
(* that stores Connecting is taken.                                        *)
(***************************************************************************)
DialTasks == {"t1", "t2"}

MaxDials == 3

\* Client::new: Disconnected, no handle, no pump
DialInit ==
    [state |-> "Disconnected", handle |-> None, pumps |-> {},
     pc |-> [t \in DialTasks |-> "idle"],
     result |-> [t \in DialTasks |-> None], dials |-> 0]

\* connect: `if *state != Disconnected { return Err(AlreadyConnected) }`
\* under state.read(), the guard dropped at the end of the block
DialCheck(t) ==
    /\ dial.pc[t] = "idle"
    /\ dial.dials < MaxDials
    /\ dial' = IF dial.state # "Disconnected"
               THEN [dial EXCEPT !.result[t] = Some("AlreadyConnected"),
                                 !.dials = @ + 1]
               ELSE [dial EXCEPT !.pc[t] = "checked", !.result[t] = None,
                                 !.dials = @ + 1]
    /\ UNCHANGED <<codecVars, hsVars, ctlVars, detVars, srvVars, layVars,
                   handle, locks>>

\* connect: `*state = Connecting` under state.write()
DialSetConnecting(t) ==
    /\ dial.pc[t] = "checked"
    /\ dial' = [dial EXCEPT !.pc[t] = "dialing", !.state = "Connecting"]
    /\ UNCHANGED <<codecVars, hsVars, ctlVars, detVars, srvVars, layVars,
                   handle, locks>>

\* connect: TcpStream::connect and handshake_client; a failure stores
\* Disconnected and returns the error
DialOpen(t, ok) ==
    /\ dial.pc[t] = "dialing"
    /\ dial' = IF ok THEN [dial EXCEPT !.pc[t] = "open"]
               ELSE [dial EXCEPT !.pc[t] = "idle", !.state = "Disconnected",
                                 !.result[t] = Some("Err")]
    /\ UNCHANGED <<codecVars, hsVars, ctlVars, detVars, srvVars, layVars,
                   handle, locks>>

\* connect: the handle and the shutdown sender are stored, the state becomes
\* Connected, the pump is spawned and Ok(()) returned
DialStore(t) ==
    /\ dial.pc[t] = "open"
    /\ dial' = [dial EXCEPT !.pc[t] = "idle", !.state = "Connected",
                            !.handle = Some(t), !.pumps = @ \cup {t},
                            !.result[t] = Some("Ok")]
    /\ UNCHANGED <<codecVars, hsVars, ctlVars, detVars, srvVars, layVars,
                   handle, locks>>

\* the pump's clean-up: the stored handle is cleared and the state becomes
\* Disconnected, whichever connection stored them
DialPumpEnd(t) ==
    /\ t \in dial.pumps
    /\ dial' = [dial EXCEPT !.pumps = @ \ {t}, !.handle = None,
                            !.state = "Disconnected"]
    /\ UNCHANGED <<codecVars, hsVars, ctlVars, detVars, srvVars, layVars,
                   handle, locks>>

DialNext ==
    \/ \E t \in DialTasks : DialCheck(t)
    \/ \E t \in DialTasks : DialSetConnecting(t)
    \/ \E t \in DialTasks, ok \in BOOLEAN : DialOpen(t, ok)
    \/ \E t \in DialTasks : DialStore(t)
    \/ \E t \in DialTasks : DialPumpEnd(t)


(***************************************************************************)
(* Specifications.                                                         *)
(***************************************************************************)
\* each specification starts the parts it does not exercise in their
\* initial state and leaves them there
\* the server has been started and nothing else was called on it; the layout
\* is ScreenLayout::new()
RestIdle ==
    /\ server = [running |-> TRUE, shutdown_tx |-> TRUE, signal |-> FALSE,
                 accept |-> "loop",
                 returns |-> <<[call |-> "start", result |-> "Ok"]>>]
    /\ layout = ScreenLayoutNew
    /\ layCalls = [builder_only |-> TRUE, n |-> 0, last |-> None]
    /\ handle = ConnectionHandleNew
    /\ locks = LocksInit
    /\ dial = DialInit

EncoderSpecInit == EncoderInit /\ HsInit /\ CtlInit /\ DetIdle /\ RestIdle

EncoderSpec == EncoderSpecInit /\ [][EncoderNext]_vars

CodecSpecInit == CodecInit /\ HsInit /\ CtlInit /\ DetIdle /\ RestIdle

CodecSpec == CodecSpecInit /\ [][CodecNext]_vars

Init == EncodersFresh /\ CodecIdle /\ HsInit /\ CtlInit /\ DetIdle /\ RestIdle

HandshakeSpec == Init /\ [][HandshakeNext]_vars

Spec == Init /\ [][Next]_vars

\* the event loops with clients that may send what run_client would not
OpenSpec == Init /\ [][OpenNext]_vars

\* run_server's select! polls the server event channel on every turn of its
\* loop, so an event that is waiting is handled
LiveSpec == Init /\ [][Next]_vars /\ WF_vars(PrimaryEvent)

\* run_client under a server that may send any message at any time
FollowerSpec == Init /\ [][FollowerNext]_vars

DetectorSpecInit == EncodersFresh /\ CodecIdle /\ HsInit /\ CtlInit /\ DetectorInit /\ RestIdle

DetectorSpec == DetectorSpecInit /\ [][DetectorNext]_vars

\* a Server that was never started, Server::new()
ServerSpecInit ==
    /\ EncodersFresh /\ CodecIdle /\ HsInit /\ CtlInit /\ DetIdle
    /\ server = [running |-> FALSE, shutdown_tx |-> FALSE, signal |-> FALSE,
                 accept |-> "none", returns |-> <<>>]
    /\ layout = ScreenLayoutNew
    /\ layCalls = [builder_only |-> TRUE, n |-> 0, last |-> None]
    /\ handle = ConnectionHandleNew
    /\ locks = LocksInit
    /\ dial = DialInit

LayoutSpec == Init /\ [][LayoutNext]_vars

ClientSpec == Init /\ [][ClientNext]_vars

HandleSpec == Init /\ [][HandleNext]_vars

\* a detector built with one of ClassifyConfigs
ClassifyInit ==
    /\ EncodersFresh /\ CodecIdle /\ HsInit /\ CtlInit /\ RestIdle
    /\ config \in ClassifyConfigs
    /\ clock = 0
    /\ results = <<>>

\* the runtime schedules a task that can take a step: the controller inside
\* send_to and at its select!, and the pump; when the controller calls
\* send_to, what the client sends and when the connection ends is not the
\* server's to decide
LockSpec ==
    /\ Init /\ [][LockNext]_vars
    /\ WF_vars(SendToEnqueue) /\ WF_vars(ControllerRecvEvent)
    /\ WF_vars(LockPumpWrite(TRUE)) /\ WF_vars(LockPumpForward)
    /\ WF_vars(LockPumpRemove) /\ WF_vars(LockPumpNotify)

CursorSpec == Init /\ [][CursorNext]_vars

DialSpec == Init /\ [][DialNext]_vars

ClassifySpec == ClassifyInit /\ [][ClassifyNext]_vars

\* the tasks the server spawned are scheduled: the accept task and every
\* handle_client task take the steps they can take
ServerSpec ==
    /\ ServerSpecInit
    /\ [][ServerNext]_vars
    /\ WF_vars(AcceptShutdown)
    /\ \A c \in Conns : /\ WF_vars(ServerHandshake(c))
                        /\ WF_vars(ServerRegister(c))
                        /\ WF_vars(ServerPumpRecv(c))
                        /\ WF_vars(ServerPumpSend(c))
                        /\ WF_vars(ServerCleanup(c))

(***************************************************************************)
(* Claims about the codec.                                                 *)
(***************************************************************************)
\* the number of encoded frames whose last byte has reached read_buf
WholeFramesFed == Cardinality({i \in 1..Len(frameEnds) : frameEnds[i] <= fed})

\* C3: on a stream of frames from one encoder, cut into chunks in any way,
\* the frames decode returns are the encoded frames in encoding order, each
\* with its message and the sequence number the encoder gave it; no frame
\* is returned before its last byte has arrived, none twice, decode reports
\* no error, and a call that returns "need more" has returned every frame
\* whose bytes have all arrived.
C3_ChunkedRoundTrip ==
    ~tampered =>
        /\ Len(decoded) <= WholeFramesFed
        /\ \A i \in 1..Len(decoded) : decoded[i] = encoded[i]
        /\ lastCall.result.kind # "Err"
        /\ lastCall.result = NeedMore => Len(decoded) = WholeFramesFed

C3_Witness ==
    /\ ~tampered
    /\ Len(encoded) = 2
    /\ decoded = encoded
    /\ encoded[1].message.type = "Heartbeat"
    /\ encoded[2].message.type = "KeyDown"
    /\ decoded[2].sequence = U32(1)
    /\ lastCall.result.kind = "Frame"
    /\ lastCall.state = "Payload"
    /\ Len(lastCall.buf) = Len(Serialize(encoded[2].message))

\* C4 (as claimed): a decode call that returns "need more" leaves the
\* buffer as it was, and bytes leave the buffer only in a call that
\* returns a frame.
C4_NeverPartiallyConsumes ==
    lastCall.kind = "decode" =>
        /\ lastCall.result = NeedMore => lastCall.after = lastCall.buf
        /\ lastCall.after # lastCall.buf => lastCall.result.kind = "Frame"

\* the header of a call made in state Header with a whole header buffered
CallHasHeader ==
    lastCall.kind = "decode" /\ lastCall.state = "Header"
    /\ Len(lastCall.buf) >= HEADER_SIZE

CallMagicOk == Take(lastCall.buf, 4) = MAGIC_BYTES

CallLengthTooLarge ==
    U32GtInt(U32FromBE(SubSeq(lastCall.buf, 6, 9)), MAX_MESSAGE_SIZE)

\* C6 (as claimed): at a frame boundary InvalidMagic is raised exactly when
\* the first four bytes differ from the magic, and MessageTooLarge exactly
\* when the length field is above 10 MiB.
C6_Original ==
    lastCall.kind = "decode" /\ lastCall.state = "Header" =>
        /\ Len(lastCall.buf) >= 4 =>
             (lastCall.result = DecErr("InvalidMagic") <=> ~CallMagicOk)
        /\ Len(lastCall.buf) >= 9 =>
             (lastCall.result = DecErr("MessageTooLarge") <=> CallLengthTooLarge)

\* C6 (amended): a decode call at a frame boundary raises InvalidMagic
\* exactly when 13 bytes are buffered and the first four differ from the
\* magic, and MessageTooLarge exactly when 13 bytes are buffered, the magic
\* matches and the length field is above 10 MiB; a call that raises either
\* returns no frame and leaves buffer and state as they were.
C6_HeaderErrors ==
    lastCall.kind = "decode" /\ lastCall.state = "Header" =>
        /\ lastCall.result = DecErr("InvalidMagic")
             <=> (CallHasHeader /\ ~CallMagicOk)
        /\ lastCall.result = DecErr("MessageTooLarge")
             <=> (CallHasHeader /\ CallMagicOk /\ CallLengthTooLarge)
        /\ lastCall.result \in {DecErr("InvalidMagic"), DecErr("MessageTooLarge")}
             => lastCall.after = lastCall.buf /\ decoder = HeaderState

C6_Witness ==
    /\ lastCall.result = DecErr("MessageTooLarge")
    /\ SubSeq(lastCall.buf, 6, 9) = <<0, 160, 0, 1>>
    /\ Len(decoded) = 1

(***************************************************************************)
(* Claims about the encoder.                                               *)
(***************************************************************************)
\* the sequence number k encodes after s
RECURSIVE U32Plus(_, _)
U32Plus(s, k) == IF k = 0 THEN s ELSE U32WrappingAdd1(U32Plus(s, k - 1))

\* C5: the sequence fields an encoder writes are its start value (0 for a
\* fresh encoder), then each the one before plus 1 modulo 2^32, whatever
\* the other encoders do in between.
C5_SequenceNumbers ==
    \A e \in Encoders :
        /\ \A i \in 1..Len(issued[e]) :
              /\ issued[e][i] = U32Plus(startSeq[e], i - 1)
              /\ issued[e][i].hi \in 0..65535 /\ issued[e][i].lo \in 0..65535
        /\ encSeq[e] = U32Plus(startSeq[e], Len(issued[e]))

C5_Witness ==
    /\ startSeq["a.c2s"] = U32(0)
    /\ issued["a.c2s"] = <<U32(0), U32(1), U32(2)>>
    /\ issued["a.s2c"] = <<[hi |-> 65535, lo |-> 65534], U32Max, U32(0)>>
    /\ issued["b.c2s"] = <<U32(0)>>

(***************************************************************************)
(* Handshake claims, checked under HandshakeSpec.                          *)
(***************************************************************************)
RECURSIVE CountType(_, _)
CountType(ws, t) ==
    IF ws = <<>> THEN 0
    ELSE (IF Head(ws).message.type = t THEN 1 ELSE 0) + CountType(Tail(ws), t)

BothCompleted(c) == hsClient[c].result = Ok /\ hsServer[c].result = Ok

\* the first frame the server received on c was a Hello of another version
\* and handshake_server has returned
RejectedForVersion(c) ==
    /\ hsServer[c].pc \notin {"listening", "awaitHello"}
    /\ sent[c] # <<>>
    /\ sent[c][1].dir = "c2s"
    /\ sent[c][1].message.type = "Hello"
    /\ sent[c][1].message.protocol_version # PROTOCOL_VERSION

\* C7: on every connection whose two endpoints both completed the
\* handshake, the first frame written is the client's Hello, the second is
\* the server's accepting HelloAck, and no other Hello or HelloAck is ever
\* written on it: nothing is sent in either direction before the pair, and
\* each of the two is sent exactly once.
C7_HelloPairFirstOnce ==
    \A c \in Conns :
        BothCompleted(c) =>
            /\ Len(sent[c]) >= 2
            /\ sent[c][1] = Written("c2s", Hello(PROTOCOL_VERSION, ClientScreen(c)))
            /\ sent[c][2] = Written("s2c", HelloAck(PROTOCOL_VERSION, ServerScreen,
                                                    TRUE, None))
            /\ CountType(sent[c], "Hello") = 1
            /\ CountType(sent[c], "HelloAck") = 1

\* a completed connection that carried a heartbeat and its acknowledgement
\* after the handshake
C7_Witness ==
    \E c \in Conns :
        /\ BothCompleted(c)
        /\ CountType(sent[c], "Heartbeat") = 1
        /\ CountType(sent[c], "HeartbeatAck") = 1

\* C8: when the first frame the server receives on a connection is a Hello
\* whose protocol_version differs from PROTOCOL_VERSION, the server sends
\* exactly one frame, HelloAck{accepted=false} with a reason, and its
\* handshake fails with VersionMismatch; the connection is not Connected,
\* is not in the registry and has no ClientConnected event (the handler has
\* returned, so none of this can change later), and the accept loop still
\* accepts every other connection that is waiting.
C8_ServerRejects ==
    \A c \in Conns :
        RejectedForVersion(c) =>
            LET v == sent[c][1].message.protocol_version
            IN /\ hsServer[c].result = VersionMismatch(PROTOCOL_VERSION, v)
               /\ hsServer[c].pc = "failed"
               /\ SelectSeq(sent[c], LAMBDA w : w.dir = "s2c") =
                    <<Written("s2c",
                        HelloAck(PROTOCOL_VERSION, ServerScreen, FALSE,
                                 Some(MismatchReason(PROTOCOL_VERSION, v))))>>
               /\ hsServer[c].conn # "Connected"
               /\ c \notin hsRegistry
               /\ \A i \in 1..Len(hsEvents) :
                      ~(hsEvents[i].event = "ClientConnected" /\ hsEvents[i].addr = c)
               /\ \A d \in Conns \ {c} :
                      hsClient[d].pc # "idle" /\ hsServer[d].pc = "listening"
                          => ENABLED ServerAccept(d)

\* c1 was rejected, and afterwards c2 was accepted, registered and announced
C8_Witness ==
    /\ RejectedForVersion("c1")
    /\ hsLog = <<[line |-> "New connection from {}", addr |-> "c1"],
                 [line |-> "Client handler error: {}", addr |-> "c1"],
                 [line |-> "New connection from {}", addr |-> "c2"]>>
    /\ "c2" \in hsRegistry
    /\ hsEvents = <<ClientConnected("c2", ClientScreen("c2"))>>

ClientSawRejection(c) == RejectedForVersion(c) /\ hsClient[c].pc = "failed"

\* C9 as stated: when the server rejects a client's Hello because the
\* versions differ, the client's handshake fails with
\* VersionMismatch{local, remote} carrying the client's and the server's
\* versions.
C9_Original ==
    \A c \in Conns :
        ClientSawRejection(c) =>
            hsClient[c].result = VersionMismatch(hsClient[c].version, PROTOCOL_VERSION)

\* C9 as the code has it: when the server rejects a client's Hello because
\* the versions differ, the client's handshake fails with HandshakeFailed
\* carrying the reason text of the server's HelloAck (handshake_client tests
\* `accepted` before it compares versions); the client connection is never
\* Connected and the client is Disconnected again.
C9_ClientFailsWithReason ==
    \A c \in Conns :
        ClientSawRejection(c) =>
            /\ hsClient[c].result =
                 HandshakeFailed(MismatchReason(PROTOCOL_VERSION, hsClient[c].version))
            /\ hsClient[c].conn # "Connected"
            /\ hsClient[c].state = "Disconnected"

C9_Witness ==
    \E c \in Conns :
        /\ ClientSawRejection(c)
        /\ hsClient[c].version = PROTOCOL_VERSION + 1
        /\ hsClient[c].result.err = "HandshakeFailed"

HandlerEnded(c) == hsServer[c].pc \in {"failed", "done"}

\* C10 as stated: when a server-side handshake fails with a version
\* mismatch, the server connection closes with that reason (a Disconnect
\* frame carrying it) and a ClientDisconnected event for that address is
\* emitted: both have happened by the time the connection's handler ends.
C10_Original ==
    \A c \in Conns :
        RejectedForVersion(c) /\ HandlerEnded(c) =>
            /\ \E i \in 1..Len(sent[c]) :
                   /\ sent[c][i].dir = "s2c"
                   /\ sent[c][i].message.type = "Disconnect"
            /\ \E i \in 1..Len(hsEvents) :
                   /\ hsEvents[i].event = "ClientDisconnected"
                   /\ hsEvents[i].addr = c

\* C10 as the code has it: when a server-side handshake fails with a
\* version mismatch, handle_client returns the error at once; no Disconnect
\* frame is written, the connection is dropped while still Connecting, no
\* event at all is emitted for that address, and the error is only logged.
C10_HandlerReturnsSilently ==
    \A c \in Conns :
        RejectedForVersion(c) =>
            /\ \A i \in 1..Len(sent[c]) : sent[c][i].message.type # "Disconnect"
            /\ \A i \in 1..Len(hsEvents) : hsEvents[i].addr # c
            /\ hsServer[c].conn = "Connecting"
            /\ s2cEof[c]
            /\ \E i \in 1..Len(hsLog) :
                   hsLog[i] = [line |-> "Client handler error: {}", addr |-> c]

\* a rejected connection whose client has also given up, next to a session
\* that ended and did emit its ClientDisconnected
C10_Witness ==
    \E c, d \in Conns :
        /\ RejectedForVersion(c)
        /\ HandlerEnded(c)
        /\ hsClient[c].pc = "failed"
        /\ hsServer[d].pc = "done"
        /\ \E i \in 1..Len(hsEvents) :
               hsEvents[i].event = "ClientDisconnected" /\ hsEvents[i].addr = d

(***************************************************************************)
(* Control claims, checked under Spec.                                     *)
(***************************************************************************)
\* C1: in every state of the primary's event loop, after any sequence of
\* capture events, ClientConnected and ClientDisconnected events and
\* inbound messages, input suppression is on if and only if control_state
\* is not Local.
C1_SuppressIffRemote == suppressing <=> control_state # Local

\* control went to a follower and came back because that follower
\* disconnected: the primary has handled its ClientDisconnected
C1_Witness ==
    \E b \in Followers :
        /\ sentDown[b] # <<>>
        /\ sentUp[b] = <<>>
        /\ follower[b].status = "gone"
        /\ b \notin hsRegistry
        /\ clients = <<>>
        /\ event_rx = <<>>
        /\ control_state = Local
        /\ ~suppressing

\* 540 / 1080 as an f32: 0.5
Half == F32Div(540, ScreenHeight)

\* C2 (S6): with the primary and the follower both 1920x1080 and follower b
\* the connected first client, (1) a captured MouseMove at (1919, 540) on
\* the primary while Local makes it send EnterScreen{Left, 0.5} to b, turn
\* suppression on and become Remote(b); (2) b handling that EnterScreen sets
\* has_control and its cursor to (0, 540); (3) b then handling
\* MouseMoveRelative{-5, 0} keeps the cursor at (0, 540), sends
\* LeaveScreen{Left, 0.5} and clears has_control; (4) the primary handling
\* that LeaveScreen is Local again with suppression off.
C2_RoundTrip ==
    [][\A b \in Followers :
         /\ ( /\ control_state = Local
              /\ clients # <<>>
              /\ clients[1] = b
              /\ b \in hsRegistry
              /\ PrimaryInput(MouseMoveEvent(Some(1919), Some(540), 5, 0)) )
            => /\ down'[b] = Append(down[b], EnterScreen("Left", Half))
               /\ suppressing'
               /\ control_state' = Remote(0)
         /\ ( /\ down[b] # <<>>
              /\ Head(down[b]) = EnterScreen("Left", Half)
              /\ FollowerEvent(b) )
            => /\ follower'[b].has_control
               /\ follower'[b].mouse_x = 0
               /\ follower'[b].mouse_y = 540
         /\ ( /\ follower[b].has_control
              /\ follower[b].entry_edge = "Left"
              /\ follower[b].mouse_x = 0
              /\ follower[b].mouse_y = 540
              /\ down[b] # <<>>
              /\ Head(down[b]) = [type |-> "MouseMoveRelative", dx |-> -5, dy |-> 0]
              /\ FollowerEvent(b) )
            => /\ follower'[b].mouse_x = 0
               /\ follower'[b].mouse_y = 540
               /\ ~follower'[b].has_control
               /\ up'[b] = Append(up[b], LeaveScreen("Left", Half))
         /\ ( /\ event_rx # <<>>
              /\ Head(event_rx) = MessageReceived(b, LeaveScreen("Left", Half))
              /\ PrimaryEvent )
            => /\ control_state' = Local
               /\ ~suppressing'
      ]_vars

\* the whole round trip has run between the primary and follower B
C2_Witness ==
    /\ clients = <<"B">>
    /\ sentDown["B"] = <<EnterScreen("Left", Half),
                         [type |-> "MouseMoveRelative", dx |-> -5, dy |-> 0]>>
    /\ sentUp["B"] = <<LeaveScreen("Left", Half)>>
    /\ ~follower["B"].has_control
    /\ follower["B"].mouse_x = 0
    /\ follower["B"].mouse_y = 540
    /\ up["B"] = <<>>
    /\ event_rx = <<>>
    /\ control_state = Local
    /\ ~suppressing

(***************************************************************************)
(* Edge detector claims, checked under DetectorSpec.                       *)
(***************************************************************************)
\* the edge each of CheckPoints lies on, as an Option
PointEdge(x, y) == IF x = 0 THEN Some("Left") ELSE IF y = 0 THEN Some("Top") ELSE None

\* the edge the cursor was on at the i-th check
At(i) == PointEdge(results[i].x, results[i].y)

\* C11: the edge detector emits at most one Transition per continuous stay
\* on the same edge: with no reset in between, two Transition results for
\* the same edge are always separated by a NotAtEdge result.
C11_OneTransitionPerStay ==
    \A i, j \in 1..Len(results) :
        ( /\ i < j
          /\ results[i].result.kind = "Transition"
          /\ results[j].result.kind = "Transition"
          /\ results[i].result.edge = results[j].result.edge )
        => \E k \in (i + 1)..(j - 1) : results[k].result.kind = "NotAtEdge"

\* the i-th check is a first touch of an edge whose last_tap is recorded and
\* at most double_tap_window_ms old
DoubleTap(i) ==
    LET b == results[i].before
    IN /\ b.current_edge = None
       /\ b.edge_states[At(i)[1]].last_tap # None
       /\ results[i].now - b.edge_states[At(i)[1]].last_tap[1]
            <= config.double_tap_window_ms

\* C12: with require_double_tap = true, check returns Transition only on a
\* first touch of an edge that has a recorded last_tap at most
\* double_tap_window_ms old; every other check made while the cursor is at
\* an edge returns Dwelling, so staying on an edge or touching it once never
\* yields Transition.
C12_DoubleTapOnly ==
    config.require_double_tap =>
        \A i \in 1..Len(results) :
            At(i) # None =>
                IF DoubleTap(i)
                THEN results[i].result.kind = "Transition"
                ELSE results[i].result.kind = "Dwelling"

\* the first check of the continuous stay on one edge that the i-th check
\* belongs to
StayStart(i) ==
    CHOOSE j \in 1..i :
        /\ \A k \in j..i : At(k) = At(i)
        /\ j = 1 \/ At(j - 1) # At(i)

\* C13: with require_double_tap = false and dwell_time_ms = D, a check at
\* an edge made `elapsed` ms after the first touch of the continuous stay on
\* that edge returns Dwelling with remaining = D - elapsed while
\* elapsed < D and Transition once elapsed >= D (so at once when D = 0);
\* leaving the edge or moving to another edge restarts the dwell.
C13_Dwell ==
    ~config.require_double_tap =>
        \A i \in 1..Len(results) :
            At(i) # None =>
                LET e == At(i)[1]
                    elapsed == results[i].now - results[StayStart(i)].now
                IN results[i].result =
                     IF elapsed >= config.dwell_time_ms
                     THEN Transition(e, calculate_edge_position(
                                           e, results[i].x, results[i].y,
                                           ScreenWidth, ScreenHeight))
                     ELSE Dwelling(e, config.dwell_time_ms - elapsed)

\* with D = 2: a stay on the left edge that was cut short by moving to the
\* top edge, where the dwell started again and ran out
C13_Witness ==
    /\ ~config.require_double_tap
    /\ config.dwell_time_ms = 2
    /\ Len(results) = 4
    /\ results[1].result = Dwelling("Left", 2)
    /\ results[2].result = Dwelling("Top", 2)
    /\ results[3].result = Dwelling("Top", 1)
    /\ results[4].result.kind = "Transition"
    /\ results[4].result.edge = "Top"
    /\ results[4].now - results[2].now = 2

(***************************************************************************)
(* Controller claims, checked under Spec.                                  *)
(***************************************************************************)
\* what the primary's detector answers to a captured move at (x, y)
PrimaryCheck(ev) ==
    Check(edge_detector, DefaultEdgeConfig, 0, ev.x[1], ev.y[1],
          ScreenWidth, ScreenHeight).result

\* the capture event is a move with a position, handled while control is
\* Local, and the detector answers Transition
LocalTransition(ev) ==
    /\ control_state = Local
    /\ ev.event = "MouseMove"
    /\ ev.x # None
    /\ ev.y # None
    /\ PrimaryCheck(ev).kind = "Transition"

\* run_server finds a peer for the edge: the first client, on the right edge
PeerFound(edge) == clients # <<>> /\ edge = "Right"

\* C14: while control is Local, a Transition{edge, position} for which a
\* peer is found makes the primary send EnterScreen{opposite(edge),
\* position} to exactly that peer (send_to puts it on that peer's queue when
\* the peer is registered), turn suppression on, set control to
\* Remote(peer) and reset the edge detector; when no peer is found, nothing
\* is sent and control, suppression and the client list are unchanged.
C14_ControllerTransition ==
    [][\A ev \in CaptureEvents :
         (LocalTransition(ev) /\ PrimaryInput(ev)) =>
             LET t == PrimaryCheck(ev)
             IN IF PeerFound(t.edge)
                THEN /\ control_state' = [tag |-> "Remote", idx |-> 0]
                     /\ suppressing'
                     /\ edge_detector' = [edge_states |-> DefaultEdgeStates,
                                          current_edge |-> None]
                     /\ clients' = clients
                     /\ \A b \in Followers :
                          down'[b] =
                            IF b = clients[1] /\ b \in hsRegistry
                            THEN Append(down[b],
                                        [type |-> "EnterScreen", edge |-> "Left",
                                         position |-> t.position])
                            ELSE down[b]
                ELSE /\ down' = down
                     /\ sentDown' = sentDown
                     /\ control_state' = control_state
                     /\ suppressing' = suppressing
                     /\ clients' = clients
      ]_vars

\* with two clients connected the primary has handed control to the first
\* one and to no other
C14_Witness ==
    /\ clients = <<"B", "C">>
    /\ control_state = Remote(0)
    /\ suppressing
    /\ edge_detector = NewDetector
    /\ sentDown["B"] = <<EnterScreen("Left", Half)>>
    /\ sentDown["C"] = <<>>

\* C15: whenever the controller's send_to to the controlling peer returns an
\* error (the client is no longer registered or its handle is closed),
\* whether for EnterScreen or for a forwarded input message, the controller
\* ends that step with control = Local and suppression off.
C15_FailedSendRevertsToLocal ==
    [][\A ev \in CaptureEvents :
         ( /\ PrimaryInput(ev)
           /\ \/ /\ LocalTransition(ev)
                 /\ PeerFound(PrimaryCheck(ev).edge)
                 /\ ~SendToOk(clients[1])
              \/ /\ control_state # Local
                 /\ control_state.idx < Len(clients)
                 /\ ~SendToOk(clients[control_state.idx + 1]) )
         => (control_state' = Local /\ ~suppressing')
      ]_vars

\* the peer that holds control is b, and b has vanished: its connection has
\* ended and its pump has exited
HolderVanished(b) ==
    /\ control_state # Local
    /\ control_state.idx < Len(clients)
    /\ clients[control_state.idx + 1] = b
    /\ follower[b].status = "gone"
    /\ b \notin hsRegistry

\* C16: if the peer that currently holds control vanishes, the primary
\* eventually reverts to control = Local with suppression off.  Checked
\* under LiveSpec.
C16_VanishedPeerReverts ==
    \A b \in Followers :
        HolderVanished(b) ~> (control_state = Local /\ ~suppressing)

\* B was given control, never gave it back and vanished; the primary has
\* handled its ClientDisconnected and is Local, with C still connected
C16_Witness ==
    /\ sentDown["B"] # <<>>
    /\ sentUp["B"] = <<>>
    /\ follower["B"].status = "gone"
    /\ follower["B"].has_control
    /\ "B" \notin hsRegistry
    /\ clients = <<"C">>
    /\ event_rx = <<>>
    /\ control_state = Local
    /\ ~suppressing

(***************************************************************************)
(* Claims about LeaveScreen on the primary, checked under OpenSpec.        *)
(***************************************************************************)
\* the next server event is a LeaveScreen received from addr
LeaveScreenFrom(addr) ==
    /\ event_rx # <<>>
    /\ Head(event_rx).event = "MessageReceived"
    /\ Head(event_rx).addr = addr
    /\ Head(event_rx).message.type = "LeaveScreen"

\* addr is the peer that holds control
HoldsControl(addr) ==
    /\ control_state # Local
    /\ control_state.idx < Len(clients)
    /\ clients[control_state.idx + 1] = addr

\* C17: the primary returns control to Local on LeaveScreen only when the
\* message comes from the peer currently holding control; a LeaveScreen
\* received from any other client, or while control is already Local,
\* leaves control state and suppression unchanged.
C17_LeaveScreenOnlyFromHolder ==
    [][\A b \in Followers :
         (LeaveScreenFrom(b) /\ ~HoldsControl(b) /\ PrimaryEvent)
         => (control_state' = control_state /\ suppressing' = suppressing)
      ]_vars

\* C18: on LeaveScreen{edge, position} from the peer that holds control the
\* primary moves its local cursor to denormalize(opposite(edge), position,
\* w, h), so that after control returns the cursor is at that point.
C18_CursorPlacedOnReturn ==
    [][\A b \in Followers :
         (LeaveScreenFrom(b) /\ HoldsControl(b) /\ PrimaryEvent)
         => LET m == Head(event_rx).message
            IN cursor' = denormalize_edge_position(opposite_edge(m.edge), m.position,
                                                   ScreenWidth, ScreenHeight)
      ]_vars


(***************************************************************************)
(* Claims about the follower, checked under FollowerSpec.                  *)
(***************************************************************************)
InputClass ==
    {"MouseMoveRelative", "MouseMoveAbsolute", "MouseButton", "MouseScroll",
     "KeyDown", "KeyUp"}

\* the step is run_client at b handling the message at the head of its queue
Handles(b) == down[b] # <<>> /\ FollowerEvent(b)

\* C19: an input-class message (MouseMoveRelative, MouseMoveAbsolute,
\* MouseButton, MouseScroll, KeyDown, KeyUp) that the follower handles while
\* has_control is false is dropped: no injector call is made, no message is
\* sent, and has_control, entry_edge, the virtual cursor and the edge
\* detector are as before.
C19_InputDroppedWithoutControl ==
    [][\A b \in Followers :
         (/\ Handles(b)
          /\ Head(down[b]).type \in InputClass
          /\ ~follower[b].has_control)
         => /\ injected' = injected
            /\ up' = up
            /\ sentUp' = sentUp
            /\ follower' = follower
      ]_vars

\* a follower that returned control has since been sent an input message and
\* has handled it
C19_Witness ==
    \E b \in Followers :
        /\ sentUp[b] # <<>>
        /\ \E i \in 1..Len(trace[b]) :
               /\ ~trace[b][i].has_control
               /\ trace[b][i].message.type \in InputClass

\* what the edge detector answers to the relative move at the head of b's
\* queue, at the clamped virtual cursor
MoveResult(b) ==
    LET m == Head(down[b])
        f == follower[b]
    IN Check(f.edge_detector, DefaultEdgeConfig, 0,
             Clamp(f.mouse_x + m.dx, 0, ScreenWidth - 1),
             Clamp(f.mouse_y + m.dy, 0, ScreenHeight - 1),
             ScreenWidth, ScreenHeight).result

\* b handles a relative move while it has control and the edge detector
\* answers with a Transition
MoveTransition(b) ==
    /\ Handles(b)
    /\ Head(down[b]).type = "MouseMoveRelative"
    /\ follower[b].has_control
    /\ MoveResult(b).kind = "Transition"

\* C20: the follower gives control back only across its entry edge.  A step
\* clears has_control or sends a message exactly when it handles a
\* MouseMoveRelative with has_control whose edge check is a Transition on
\* entry_edge; the step then does both, and the message is
\* LeaveScreen{edge, position} of that Transition.  A Transition on another
\* edge sends nothing and leaves has_control true.
C20_ReturnOnlyAcrossEntryEdge ==
    [][\A b \in Followers :
         LET back == MoveTransition(b) /\ MoveResult(b).edge = follower[b].entry_edge
             leave == LeaveScreen(MoveResult(b).edge, MoveResult(b).position)
         IN /\ back => /\ ~follower'[b].has_control
                        /\ sentUp'[b] = Append(sentUp[b], leave)
                        /\ up'[b] = Append(up[b], leave)
            /\ ((follower[b].has_control /\ ~follower'[b].has_control)
                  \/ sentUp'[b] # sentUp[b] \/ up'[b] # up[b]) => back
            /\ (MoveTransition(b) /\ ~back)
                  => /\ follower'[b].has_control
                     /\ sentUp'[b] = sentUp[b]
                     /\ up'[b] = up[b]
      ]_vars

\* a follower entered over the left edge was moved onto the right edge, where
\* it sent nothing, then back onto the left edge, where it returned control
C20_Witness ==
    \E b \in Followers :
        /\ ~follower[b].has_control
        /\ sentUp[b] = <<LeaveScreen("Left", Quarter)>>
        /\ \E i \in 1..Len(injected[b]) :
               injected[b][i] = Inject("mouse_move_relative", 2000, 0)


(***************************************************************************)
(* Claims about the server's client events, checked under HandshakeSpec.   *)
(***************************************************************************)
\* where the server event channel carries an event of this kind for c
EventsAt(c, kind) ==
    {i \in 1..Len(hsEvents) : hsEvents[i].event = kind /\ hsEvents[i].addr = c}

C24_DisconnectTerminal ==
    \A c \in Conns :
        \A i, j \in 1..Len(sent[c]) :
            (i < j /\ sent[c][i].dir = sent[c][j].dir)
            => sent[c][i].message.type # "Disconnect"

\* C30 (as claimed): once the pump of a client that called disconnect() has
\* closed its connection, the Disconnect{"Client disconnecting"} enqueued
\* through the handle has been written to the socket.
C30_DisconnectWrittenBeforeClose ==
    \A c \in Conns :
        (cShutdown[c] /\ hsClient[c].pc = "done")
        => \E i \in 1..Len(sent[c]) :
              sent[c][i] = Written("c2s", Disconnect(Text("Client disconnecting")))

\* the step is handle_client's pump for c receiving the frame at the head of
\* the stream from its client
PumpReceives(c) == c2s[c] # <<>> /\ ServerPumpRecv(c)

C25_DeliveredInOrder ==
    [][\A c \in Conns :
         /\ cOut'[c] # cOut[c] =>
               \/ /\ Len(cOut'[c]) = Len(cOut[c]) + 1
                  /\ SubSeq(cOut'[c], 1, Len(cOut[c])) = cOut[c]
               \/ /\ cOut[c] # <<>>
                  /\ cOut'[c] = Tail(cOut[c])
                  /\ \/ sent'[c] = Append(sent[c], [dir |-> "c2s",
                                                     message |-> Head(cOut[c])])
                     \/ sent'[c] = sent[c] /\ hsClient'[c].pc = "cleanup"
         /\ sOut'[c] # sOut[c] =>
               \/ /\ Len(sOut'[c]) = Len(sOut[c]) + 1
                  /\ SubSeq(sOut'[c], 1, Len(sOut[c])) = sOut[c]
               \/ /\ sOut[c] # <<>>
                  /\ sOut'[c] = Tail(sOut[c])
                  /\ \/ sent'[c] = Append(sent[c], [dir |-> "s2c",
                                                     message |-> Head(sOut[c])])
                     \/ sent'[c] = sent[c] /\ hsServer'[c].pc = "cleanup"
         /\ (/\ Len(hsEvents') > Len(hsEvents)
             /\ hsEvents'[Len(hsEvents')].event = "MessageReceived"
             /\ hsEvents'[Len(hsEvents')].addr = c)
            => /\ c2s[c] # <<>>
               /\ hsEvents' = Append(hsEvents, [event |-> "MessageReceived",
                                                addr |-> c, message |-> Head(c2s[c])])
               /\ c2s'[c] = Tail(c2s[c])
      ]_vars

\* two different messages were enqueued on a client's handle, Left before
\* Top; they were written in that order and published in that order
C25_Witness ==
    \E c \in Conns :
        \E i, j \in 1..Len(hsEvents) :
            /\ i < j
            /\ hsEvents[i] = [event |-> "MessageReceived", addr |-> c,
                              message |-> LeaveScreen("Left", F32One)]
            /\ hsEvents[j] = [event |-> "MessageReceived", addr |-> c,
                              message |-> LeaveScreen("Top", F32One)]


(***************************************************************************)
(* Claims about Server::start and Server::stop, checked under ServerSpec.  *)
(***************************************************************************)
\* c was registered when stop ran: stop put its Disconnect on c's handle,
\* where it waits or from where the pump has written it
StoppedWith(c) ==
    LET bye == Disconnect(Text("Server shutting down"))
    IN \/ \E i \in 1..Len(sOut[c]) : sOut[c][i] = bye
       \/ \E i \in 1..Len(sent[c]) : sent[c][i] = [dir |-> "s2c", message |-> bye]

\* C22 (as claimed): after stop on a running server, every registered client
\* is eventually removed from the registry and a ClientDisconnected is
\* emitted for it, whatever the remote peer does.
C22_StopReachesEveryPump ==
    \A c \in Conns :
        (StoppedWith(c) /\ c \in hsRegistry)
        ~> (c \notin hsRegistry /\ EventsAt(c, "ClientDisconnected") # {})

\* whether the server runs before its i-th call, going by what the calls
\* before it returned: the last of them that returned Ok was a start
RunsBefore(i) ==
    LET oks == {j \in 1..(i - 1) : server.returns[j].result = "Ok"}
    IN /\ oks # {}
       /\ server.returns[CHOOSE j \in oks : \A k \in oks : k <= j].call = "start"

\* C23 (as claimed): for every sequence of start and stop calls, a start on
\* a running server returns AlreadyRunning and a stop on a server that is
\* not running (never started, or stopped by the call before) returns
\* NotRunning.
C23_StartStopErrors ==
    \A i \in 1..Len(server.returns) :
        LET r == server.returns[i]
        IN /\ (r.call = "start" /\ RunsBefore(i)) => r.result = "AlreadyRunning"
           /\ (r.call = "stop" /\ ~RunsBefore(i)) => r.result = "NotRunning"


(***************************************************************************)
(* The screen layout (src/screen/layout.rs).                               *)
(***************************************************************************)
\* C26: every layout a LayoutBuilder produces, after any sequence of
\* local_host, add_host, connect, right_of, left_of, above and below calls,
\* has only bidirectional links: whenever host A's neighbor at edge E is B,
\* host B's neighbor at the opposite edge is A.
C26_BuilderLinksBidirectional ==
    layCalls.builder_only =>
        \A a \in LayoutHosts, e \in Edges :
            (layout.screens[a] # None /\ None # layout.screens[a].neighbors[e]) =>
                LET b == layout.screens[a].neighbors[e]
                    back == CASE e = "Left" -> "Right" [] e = "Right" -> "Left"
                              [] e = "Top" -> "Bottom" [] e = "Bottom" -> "Top"
                IN /\ layout.screens[b] # None
                   /\ layout.screens[b].neighbors[back] = a

\* the edges a helper names: host_a's edge, then host_b's edge
HelperLinks(helper) ==
    CASE helper = "right_of" -> <<"Right", "Left">>
      [] helper = "left_of" -> <<"Left", "Right">>
      [] helper = "above" -> <<"Top", "Bottom">>
      [] helper = "below" -> <<"Bottom", "Top">>

\* the layout links host_a and host_b the way the last helper call names
LastHelperLinked ==
    LET a == layCalls.last.host_a
        b == layCalls.last.host_b
        to == get_neighbor(layout, a, HelperLinks(layCalls.last.call)[1])
        back == get_neighbor(layout, b, HelperLinks(layCalls.last.call)[2])
    IN /\ to # None /\ to.host_id = b
       /\ back # None /\ back.host_id = a

\* C27 as claimed: after LayoutBuilder::right_of(A, B) the layout has
\* get_neighbor(A, Right) = B and get_neighbor(B, Left) = A, and left_of
\* gives Left/Right, above gives Top/Bottom and below gives Bottom/Top.
C27_HelperLinks ==
    (layCalls.last # None /\ layCalls.last.call \in Helpers) => LastHelperLinked

\* C27: after LayoutBuilder::right_of(A, B) on a builder that holds both A
\* and B, the layout has get_neighbor(A, Right) = B and
\* get_neighbor(B, Left) = A, and left_of gives Left/Right, above gives
\* Top/Bottom and below gives Bottom/Top; when A or B has not been added the
\* call changes nothing.
C27_HelperLinksPresentHosts ==
    (layCalls.last # None /\ layCalls.last.call \in Helpers) =>
        IF layCalls.last.present = {layCalls.last.host_a, layCalls.last.host_b}
        THEN LastHelperLinked
        ELSE \A h \in {layCalls.last.host_a, layCalls.last.host_b} \ layCalls.last.present :
                 /\ layout.screens[h] = None
                 /\ \A o \in LayoutHosts, e \in Edges :
                        get_neighbor(layout, o, e) = None
                        \/ get_neighbor(layout, o, e).host_id # h

C27_Witness ==
    /\ layCalls.last # None
    /\ layCalls.last.call = "right_of"
    /\ layCalls.last.host_a = "A" /\ layCalls.last.host_b = "B"
    /\ layCalls.last.present = {"A", "B"}
    /\ layout.screens["A"].neighbors["Right"] = "B"
    /\ layout.screens["B"].neighbors["Left"] = "A"

\* C28: remove_host(id) removes the node and every neighbor entry that
\* points to it: after any sequence of add_host, set_local_host,
\* connect_hosts, disconnect_hosts, create_linear_layout and remove_host no
\* node's neighbor map names a host that is absent from the layout, and
\* get_neighbor never returns a removed host.
C28_NoDanglingNeighbor ==
    /\ \A h \in LayoutHosts, e \in Edges :
           (layout.screens[h] # None /\ None # layout.screens[h].neighbors[e]) =>
               layout.screens[layout.screens[h].neighbors[e]] # None
    /\ (layCalls.last # None /\ layCalls.last.call = "remove_host") =>
           /\ layout.screens[layCalls.last.host] = None
           /\ \A h \in LayoutHosts, e \in Edges :
                  get_neighbor(layout, h, e) = None
                  \/ get_neighbor(layout, h, e).host_id # layCalls.last.host

C28_Witness ==
    /\ layCalls.last # None
    /\ layCalls.last.call = "remove_host"
    /\ layCalls.last.referenced_by # {}
    /\ \E o \in layCalls.last.referenced_by : layout.screens[o] # None

(***************************************************************************)
(* Error handling of connections and clients.                              *)
(***************************************************************************)
\* C31 (as claimed): Connection.close(reason) always ends with the
\* connection in state Closed; an I/O error while sending the Disconnect or
\* shutting the stream down does not leave the state at Closing.
C31_CloseEndsClosed ==
    \A c \in Conns :
        /\ hsClient[c].pc = "done" => hsClient[c].conn = "Closed"
        /\ hsServer[c].pc = "done" => hsServer[c].conn = "Closed"

\* the stream offsets at which a frame of the encoder ends, and the start
FrameBoundaries == {0} \cup {frameEnds[i] : i \in 1..Len(frameEnds)}

\* C32 (as claimed): on EOF recv returns Ok(None) only if the stream ended
\* on a frame boundary, and returns Closed whenever EOF arrives after part
\* of a frame has been received, including when a complete 13-byte header
\* has arrived but its payload has not.
C32_EofMidFrameIsClosed ==
    (recvEof # "open" /\ ~tampered) =>
        (recvEof = "OkNone" <=> fed \in FrameBoundaries)

\* C33 (as claimed): connect on a client whose state is not Disconnected
\* returns AlreadyConnected; a connect that fails leaves the state
\* Disconnected; disconnect and send on a client with no live connection
\* return NotConnected; after the pump has exited the state is Disconnected.
C33_ClientLifecycleErrors ==
    \A c \in Conns :
        /\ hsClient[c].pc \in {"failed", "done"} => hsClient[c].state = "Disconnected"
        /\ hsClient[c].last # None =>
              /\ (hsClient[c].last.call = "connect"
                  /\ hsClient[c].last.state # "Disconnected")
                     => hsClient[c].last.result = "AlreadyConnected"
              /\ (hsClient[c].last.call \in {"disconnect", "send"}
                  /\ hsClient[c].last.pc \notin {"pump", "cleanup"})
                     => hsClient[c].last.result = "NotConnected"

\* C34: ConnectionHandle.send fails with Closed once mark_disconnected has
\* been called on the handle or on any of its clones, and with
\* SendChannelClosed when the flag is still set and the receiving end of the
\* queue has been dropped; the connected flag is shared by all clones and
\* never returns to true once cleared.
C34_HandleSendErrors ==
    /\ \A k \in 1..Len(handle.sends) :
           /\ handle.sends[k].marked # {} => handle.sends[k].result = "Closed"
           /\ (handle.sends[k].marked = {} /\ ~handle.sends[k].receiver)
                 => handle.sends[k].result = "SendChannelClosed"
    /\ \A i, j \in 1..Len(handle.clones) :
           handle.cells[handle.clones[i]] = handle.cells[handle.clones[j]]
    /\ handle.marked # {} =>
           \A i \in 1..Len(handle.clones) : ~handle.cells[handle.clones[i]]

C34_Witness ==
    /\ \E k \in 1..Len(handle.sends) :
           /\ handle.sends[k].result = "Closed"
           /\ handle.sends[k].marked # {}
           /\ handle.sends[k].clone \notin handle.sends[k].marked
    /\ \E k \in 1..Len(handle.sends) :
           handle.sends[k].result = "SendChannelClosed"

(***************************************************************************)
(* Edge classification (src/screen/edge_detector.rs).                      *)
(***************************************************************************)
\* the edge the claim gives for (x, y) on a w x h screen with margin m and
\* the enabled edges en
ClaimedEdge(x, y, w, h, m, en) ==
    IF x <= m /\ "Left" \in en THEN "Left"
    ELSE IF x >= w - m - 1 /\ "Right" \in en THEN "Right"
    ELSE IF y <= m /\ "Top" \in en THEN "Top"
    ELSE IF y >= h - m - 1 /\ "Bottom" \in en THEN "Bottom"
    ELSE "none"

C36_SendToAndPumpsNeverDeadlock ==
    /\ (locks.ctl = "sending") ~> (locks.ctl = "select")
    /\ (locks.pump = "awaitWrite") ~> (~locks.registered /\ locks.pump = "ended")

(***************************************************************************)
(* Client::connect from two tasks (src/network/client.rs).                 *)
(***************************************************************************)
\* the calls that have passed the Disconnected check and not yet returned
DialPassed == {t \in DialTasks : dial.pc[t] \in {"checked", "dialing", "open"}}

\* C40 (as claimed): when connect is called concurrently from two tasks on
\* the same Client, at most one call passes the Disconnected check and opens
\* a connection, so at most one pump task exists per Client at any time and
\* the stored handle is that pump's.
C40_OneConnectionPerClient ==
    /\ Cardinality(DialPassed) <= 1
    /\ Cardinality(dial.pumps) <= 1
    /\ \A t \in dial.pumps : dial.handle = Some(t)

(***************************************************************************)
(* Who holds control (src/main.rs, run_server and run_client).             *)
(***************************************************************************)
\* the followers whose run_client is in its loop with has_control set
Holders ==
    {b \in Followers : follower[b].status = "connected" /\ follower[b].has_control}

\* the primary's control state is Remote(idx), clients[idx] is b, and the
\* capture suppresses
Designates(b) ==
    /\ control_state.tag = "Remote"
    /\ control_state.idx < Len(clients)
    /\ clients[control_state.idx + 1] = b
    /\ suppressing

\* C37: in every reachable state of a primary and its connected followers, a
\* follower with has_control = true is the one the primary's Remote control
\* state designates, with suppression on, and at most one follower has
\* has_control = true.
C37_ControlNotBehindPrimary ==
    /\ \A b \in Holders : Designates(b)
    /\ Cardinality(Holders) <= 1

\* a follower holds control while another follower is connected as well
C37_Witness ==
    /\ Holders # {}
    /\ \E b \in Followers \ Holders : follower[b].status = "connected" /\ b \in hsRegistry
    /\ Len(clients) = 2

(***************************************************************************)
(* The follower's virtual cursor (src/main.rs, run_client).                *)
(***************************************************************************)
\* C38 (as claimed): while the follower has control, its virtual cursor
\* (mouse_x, mouse_y) stays within [0, w-1] x [0, h-1] after any sequence of
\* EnterScreen (with any position in [0, 1]), MouseMoveRelative and
\* MouseMoveAbsolute messages.
C38_CursorWithinScreen ==
    \A b \in Followers :
        follower[b].has_control =>
            /\ follower[b].mouse_x \in 0..(ScreenWidth - 1)
            /\ follower[b].mouse_y \in 0..(ScreenHeight - 1)

\* run_client handles, in this step, a MouseMoveRelative that takes the
\* virtual cursor of b strictly away from the edge b was entered on
MovesAway(b) ==
    /\ follower[b].status = "connected"
    /\ down[b] # <<>>
    /\ down'[b] = Tail(down[b])
    /\ Head(down[b]).type = "MouseMoveRelative"
    /\ follower[b].has_control
    /\ LET f == follower[b]
           m == Head(down[b])
           x == Clamp(f.mouse_x + m.dx, 0, ScreenWidth - 1)
           y == Clamp(f.mouse_y + m.dy, 0, ScreenHeight - 1)
       IN CASE f.entry_edge = "Left" -> x > f.mouse_x
            [] f.entry_edge = "Right" -> x < f.mouse_x
            [] f.entry_edge = "Top" -> y > f.mouse_y
            [] f.entry_edge = "Bottom" -> y < f.mouse_y

\* C39 (as claimed): after the follower gains control through EnterScreen on
\* edge E, a MouseMoveRelative that moves its virtual cursor strictly away
\* from E (for example dx > 0 after entering on Left) never makes the
\* follower send LeaveScreen or lose has_control.
C39_MoveAwayKeepsControl ==
    [][\A b \in Followers :
          MovesAway(b) => /\ follower'[b].has_control
                          /\ sentUp'[b] = sentUp[b]]_vars

====
